---- MODULE Spec2Model ----
(***************************************************************************)
(* Model of the Parkinson's-disease movement detector: temporal            *)
(* confirmation of the per-window spectral label (signal_processing.cpp,   *)
(* process_window), the gait-freeze automaton (fog_detection.cpp,          *)
(* process_fog_detection), sample acquisition and the data-ready signal    *)
(* (sensor.cpp), the main loop (main.cpp) and the wireless notifier        *)
(* (ble_comm.cpp).  The LED pin and the console output are not modelled.   *)
(*                                                                         *)
(* Number representation.  The firmware computes in 32-bit floats; the     *)
(* model computes in fixed point and truncates quotients:                  *)
(*   - intensities, spectral peaks, noise floor : units of 1/FX            *)
(*   - variance                                 : units of 1e-6 g^2        *)
(*   - standard deviation                       : units of 1e-3 g          *)
(*   - cadence                                  : whole steps per minute   *)
(*     (156/52 = 3.0 and steps/3.0*60 are exact in binary32)               *)
(*   - acceleration, step baseline              : units of 1/FX g          *)
(*   - time                                     : milliseconds, uint32     *)
(* The window buffers are represented by the statistics the code computes  *)
(* from them: the accelerometer variance, the two band peaks and the mean  *)
(* magnitude of the noise band.                                            *)
(***************************************************************************)
EXTENDS Integers, Sequences, FiniteSets, TLC

\* ------------------------------------------------------------------------
\* Fixed-point scale and integer widths
\* ------------------------------------------------------------------------
FX == 10000
UINT8_MOD == 256
UINT16_MOD == 65536
\* TLC's integers are 32-bit signed: a uint32_t difference that wraps
\* (a < b gives a - b + 2^32 > 2^31) is represented by the largest integer;
\* the code only compares such differences with thresholds below 2^15.
UINT32_WRAPPED == 2147483647

\* ------------------------------------------------------------------------
\* Program constants
\* ------------------------------------------------------------------------
WINDOW_SIZE == 156
TARGET_SAMPLE_RATE_HZ == 52
DETECTION_CONFIRM_WINDOWS == 2
CLEAR_CONFIRM_WINDOWS == 3
\* EMA_ALPHA = 0.3f, in tenths
EMA_ALPHA == 3
\* std_dev >= 0.005f, in 1e-3 g
STD_DEV_MIN == 5
\* noise floor clamp 0.25f, in 1/FX
NOISE_FLOOR_MIN == 2500
\* raw score cap 3.0f, in 1/FX
INTENSITY_CAP == 30000
\* 500.0f scale and the 1000 clamp of the published intensity
INTENSITY_SCALE == 500
INTENSITY_MAX == 1000

WALKING_CADENCE_MIN == 25
WALKING_CADENCE_MAX == 140
\* 0.05f and 0.30f, in 1e-6 g^2
WALKING_VARIANCE_MIN == 50000
WALKING_VARIANCE_MAX == 300000
MIN_STEPS_FOR_WALKING == 2
FREEZE_CADENCE_MAX == 10
\* 0.015f, in 1e-6 g^2
FREEZE_VARIANCE_MAX == 15000
MIN_WALKING_DURATION_MS == 2000
FREEZE_CONFIRMATION_MS == 1500
MAX_FOG_DURATION_MS == 15000

\* STEP_THRESHOLD = 0.05f g, in 1/FX
STEP_THRESHOLD == 500
MIN_STEP_INTERVAL_MS == 100
\* BASELINE_EMA_ALPHA = 0.001f, in thousandths
BASELINE_EMA_ALPHA == 1
\* accel_baseline_ema = 1.0f at start-up, in 1/FX
BASELINE_START == 10000
\* main loop: polling starts after 100 ms without a drained signal, at
\* most every 19 ms; the status report is due every 5000 ms
POLL_AFTER_MS == 100
POLL_PERIOD_MS == 19
STATUS_PERIOD_MS == 5000

\* ------------------------------------------------------------------------
\* Bounds of the exploration
\* ------------------------------------------------------------------------
\* last clock value (ms) at which a window may complete, per environment
MaxTime == 8000
MaxDetTime == 20000
MaxLongTime == 32000
MaxInjectTime == 11000
MaxCadenceTime == 14000
MaxScenarioTime == 11000
MaxStillTime == 14000
MaxLoopTime == 2130
\* most data-ready signals in a run, and most signals awaiting the drain
MaxSignals == 3
MaxPending == 2
MaxBandTime == 5000             \* end of the band-decision runs
MaxRunTime == 776000            \* end of the sustained-tremor runs (258 windows)
MaxBleTime == 17000             \* end of the notifier runs
MaxDrainTime == 2002            \* end of the long-drain runs
MaxDrainSignals == 314          \* signals of a long-drain run (2 windows and 2)
MaxReadFailures == 1            \* failed reads of a long-drain run
\* clock value when the main loop is entered (after the start-up sleeps)
BootTime == 2000

VARIABLES
    now,                          \* Kernel::get_ms_count()
    window_ready,                 \* sensor.cpp: a complete window awaits processing
    steps_in_window,              \* steps counted while the window was filled
    win_variance,                 \* variance of accel_magnitude_buffer
    win_tremor_peak,              \* largest magnitude in 3-5 Hz of the window's spectrum
    win_dysk_peak,                \* largest magnitude in 5-7 Hz
    win_noise,                    \* mean magnitude in 0.5-2 Hz
    fft_initialized,
    raw_detection,                \* process_window local: last raw label
    raw_intensity,                \* process_window local: last raw score
    tremor_consecutive,
    dysk_consecutive,
    none_consecutive,
    tremor_ema_intensity,
    dysk_ema_intensity,
    tremor_intensity,
    dysk_intensity,
    fog_state,
    walking_start_time,
    freeze_start_time,
    freeze_confirmed_start,       \* function-local static of process_fog_detection
    previous_cadence,
    consecutive_walking_windows,
    consecutive_freeze_windows,
    fog_status,
    \* sensor.cpp
    new_data_available,
    interrupt_count,
    pending_samples,
    read_status,                  \* outcome of the latest bus transfers of
                                  \* read_sensor_data
    sample_count,
    last_sample_time_ms,
    accel_magnitude_buffer,       \* the slots written so far, slot -> value
    gyro_magnitude_buffer,
    buffer_index,
    accel_baseline_ema,
    above_step_threshold,
    last_step_time_ms,
    \* main.cpp, locals of main and the position in the loop body
    pc,
    loop_now,                     \* the local 'now' of the iteration
    last_interrupt_time,
    last_poll_time,
    poll_status,                  \* the local 'status' of the polling branch
    last_status_time,
    last_ble_connected,
    last_tremor,
    last_dysk,
    last_fog,
    \* ble_comm.cpp
    ble_connected,
    previous_tremor,
    previous_dysk,
    previous_fog,
    ble_written                   \* characteristics written by the latest
                                  \* call of update_ble_characteristics

winVars == <<win_variance, win_tremor_peak, win_dysk_peak, win_noise>>
detVars == <<fft_initialized, raw_detection, raw_intensity,
             tremor_consecutive, dysk_consecutive, none_consecutive,
             tremor_ema_intensity, dysk_ema_intensity,
             tremor_intensity, dysk_intensity>>
fogVars == <<fog_state, walking_start_time, freeze_start_time,
             freeze_confirmed_start, previous_cadence,
             consecutive_walking_windows, consecutive_freeze_windows,
             fog_status>>
isrVars == <<new_data_available, interrupt_count, pending_samples>>
bufVars == <<accel_magnitude_buffer, gyro_magnitude_buffer, buffer_index>>
stepVars == <<accel_baseline_ema, above_step_threshold, last_step_time_ms>>
sampleVars == <<read_status, sample_count, last_sample_time_ms, bufVars,
                stepVars>>
loopVars == <<pc, loop_now, last_interrupt_time, last_poll_time,
              poll_status>>
statusVars == <<last_status_time, last_ble_connected, last_tremor,
                last_dysk, last_fog>>
bleVars == <<ble_connected, previous_tremor, previous_dysk, previous_fog,
             ble_written>>
vars == <<now, window_ready, steps_in_window, winVars, detVars, fogVars,
          isrVars, sampleVars, loopVars, statusVars, bleVars>>


\* ------------------------------------------------------------------------
\* Arithmetic helpers
\* ------------------------------------------------------------------------
\* a - b on uint32_t
Sub32(a, b) == IF a >= b THEN a - b ELSE UINT32_WRAPPED

\* x++ on uint8_t
Inc8(x) == (x + 1) % UINT8_MOD

RECURSIVE SqrtSearch(_, _, _)
SqrtSearch(v, lo, hi) ==
    IF lo >= hi THEN lo
    ELSE LET mid == (lo + hi + 1) \div 2
         IN  IF mid * mid <= v THEN SqrtSearch(v, mid, hi)
                               ELSE SqrtSearch(v, lo, mid - 1)

\* sqrtf(variance): variance in 1e-6 g^2 gives std_dev in 1e-3 g (truncated)
sqrtf(v) == SqrtSearch(v, 0, 2000)

\* ------------------------------------------------------------------------
\* Spectral decision (signal_processing.cpp, analyze_frequency_content)
\* ------------------------------------------------------------------------
\* variant: a tremor is declared without the dominance test
BandDecision_NoDominance(tremor_peak, dysk_peak, noise_mean) ==
    LET noise_floor == IF noise_mean < NOISE_FLOOR_MIN THEN NOISE_FLOOR_MIN
                                                      ELSE noise_mean
        tremor_threshold == noise_floor * 3
        dysk_threshold == noise_floor * 4
        \* DOM_RATIO = 1.1f
        tremor_detected == tremor_peak > tremor_threshold
        dysk_detected == /\ dysk_peak > dysk_threshold
                         /\ 10 * dysk_peak > 11 * tremor_peak
        condition == IF tremor_detected THEN "TREMOR"
                     ELSE IF dysk_detected THEN "DYSK" ELSE "NONE"
        intensity_score ==
            IF tremor_detected
            THEN ((tremor_peak - tremor_threshold) * FX) \div tremor_threshold
            ELSE IF dysk_detected
            THEN ((dysk_peak - dysk_threshold) * FX) \div dysk_threshold
            ELSE 0
        capped == IF intensity_score < 0 THEN 0
                  ELSE IF intensity_score > INTENSITY_CAP THEN INTENSITY_CAP
                  ELSE intensity_score
    IN  [condition |-> condition, intensity |-> capped]

\* Steps 4-8 of the analyzer, applied to the band statistics of the window.
BandDecision(tremor_peak, dysk_peak, noise_mean) ==
    LET noise_floor == IF noise_mean < NOISE_FLOOR_MIN THEN NOISE_FLOOR_MIN
                                                      ELSE noise_mean
        tremor_threshold == noise_floor * 3
        dysk_threshold == noise_floor * 4
        \* DOM_RATIO = 1.1f
        tremor_detected == /\ tremor_peak > tremor_threshold
                           /\ 10 * tremor_peak > 11 * dysk_peak
        dysk_detected == /\ dysk_peak > dysk_threshold
                         /\ 10 * dysk_peak > 11 * tremor_peak
        condition == IF tremor_detected THEN "TREMOR"
                     ELSE IF dysk_detected THEN "DYSK" ELSE "NONE"
        intensity_score ==
            IF tremor_detected
            THEN ((tremor_peak - tremor_threshold) * FX) \div tremor_threshold
            ELSE IF dysk_detected
            THEN ((dysk_peak - dysk_threshold) * FX) \div dysk_threshold
            ELSE 0
        capped == IF intensity_score < 0 THEN 0
                  ELSE IF intensity_score > INTENSITY_CAP THEN INTENSITY_CAP
                  ELSE intensity_score
    IN  [condition |-> condition, intensity |-> capped]

\* The whole call: one-time transform initialisation, whose status st is
\* the library's answer, then the decision.  A failed initialisation
\* returns the defaults and leaves the flag clear.
analyze_frequency_content(st) ==
    IF ~fft_initialized /\ st # "ARM_MATH_SUCCESS"
    THEN [condition |-> "NONE", intensity |-> 0, initialized |-> FALSE]
    ELSE LET d == BandDecision(win_tremor_peak, win_dysk_peak, win_noise)
         IN  [condition |-> d.condition, intensity |-> d.intensity,
              initialized |-> TRUE]

\* ------------------------------------------------------------------------
\* Temporal confirmation (signal_processing.cpp, process_window)
\* ------------------------------------------------------------------------
\* EMA_ALPHA * raw + (1 - EMA_ALPHA) * previous
EmaUpdate(raw, previous) == (EMA_ALPHA * raw + (10 - EMA_ALPHA) * previous) \div 10

\* variant: the clamp to 1000 is missing
ScaleIntensity_NoClamp(ema) == ((ema * INTENSITY_SCALE) \div FX) % UINT16_MOD

\* variant: the smoothed intensity is scaled to 0-100 instead of 0-1000
ScaleIntensity_Coarse(ema) ==
    LET cast == ((ema * (INTENSITY_SCALE \div 10)) \div FX) % UINT16_MOD
    IN  IF cast > INTENSITY_MAX THEN INTENSITY_MAX ELSE cast

\* (uint16_t)(ema * 500.0f), then the clamp to 1000
ScaleIntensity(ema) ==
    LET cast == ((ema * INTENSITY_SCALE) \div FX) % UINT16_MOD
    IN  IF cast > INTENSITY_MAX THEN INTENSITY_MAX ELSE cast

\* variant: the spectral analysis runs on every window
RawClassification_AlwaysAnalyse(st) == analyze_frequency_content(st)

\* Lines 241-252: the raw label and score of the window.  A near-static
\* window is not analysed.
RawClassification(st) ==
    LET std_dev == sqrtf(win_variance)
    IN  IF std_dev >= STD_DEV_MIN
        THEN analyze_frequency_content(st)
        ELSE [condition |-> "NONE", intensity |-> 0,
              initialized |-> fft_initialized]

\* variant: a streak is not reset by a window with another label
StreakUpdate_NoReset(condition) ==
    [tremor |-> IF condition = "TREMOR" THEN Inc8(tremor_consecutive)
                ELSE tremor_consecutive,
     dysk   |-> IF condition = "DYSK" THEN Inc8(dysk_consecutive)
                ELSE dysk_consecutive,
     none   |-> IF condition \notin {"TREMOR", "DYSK"}
                THEN Inc8(none_consecutive) ELSE none_consecutive]

\* Lines 255-275: the three uint8_t streak counters after a window with
\* the given raw label.
StreakUpdate(condition) ==
    [tremor |-> IF condition = "TREMOR" THEN Inc8(tremor_consecutive) ELSE 0,
     dysk   |-> IF condition = "DYSK" THEN Inc8(dysk_consecutive) ELSE 0,
     none   |-> IF condition \notin {"TREMOR", "DYSK"}
                THEN Inc8(none_consecutive) ELSE 0]

\* variant: one accumulator, shared by the two labels
SmoothUpdate_Shared(condition, intensity) ==
    [tremor |-> IF condition \in {"TREMOR", "DYSK"}
                THEN EmaUpdate(intensity, tremor_ema_intensity)
                ELSE tremor_ema_intensity,
     dysk   |-> IF condition \in {"TREMOR", "DYSK"}
                THEN EmaUpdate(intensity, dysk_ema_intensity)
                ELSE dysk_ema_intensity]

\* Lines 260-270: the two smoothing accumulators after the window.
SmoothUpdate(condition, intensity) ==
    [tremor |-> IF condition = "TREMOR"
                THEN EmaUpdate(intensity, tremor_ema_intensity)
                ELSE tremor_ema_intensity,
     dysk   |-> IF condition = "DYSK"
                THEN EmaUpdate(intensity, dysk_ema_intensity)
                ELSE dysk_ema_intensity]

\* variant: a confirmed label does not clear the other label's output
Publication_KeepOther(c, e) ==
    IF c.tremor >= DETECTION_CONFIRM_WINDOWS
    THEN [tremor |-> ScaleIntensity(e.tremor), dysk |-> dysk_intensity,
          tremor_ema |-> e.tremor, dysk_ema |-> e.dysk]
    ELSE IF c.dysk >= DETECTION_CONFIRM_WINDOWS
    THEN [tremor |-> tremor_intensity, dysk |-> ScaleIntensity(e.dysk),
          tremor_ema |-> e.tremor, dysk_ema |-> e.dysk]
    ELSE IF c.none >= CLEAR_CONFIRM_WINDOWS
    THEN [tremor |-> 0, dysk |-> 0, tremor_ema |-> 0, dysk_ema |-> 0]
    ELSE [tremor |-> tremor_intensity, dysk |-> dysk_intensity,
          tremor_ema |-> e.tremor, dysk_ema |-> e.dysk]

\* variant: a window that meets no milestone publishes "nothing detected"
Publication_DropUnconfirmed(c, e) ==
    IF c.tremor >= DETECTION_CONFIRM_WINDOWS
    THEN [tremor |-> ScaleIntensity(e.tremor), dysk |-> 0,
          tremor_ema |-> e.tremor, dysk_ema |-> e.dysk]
    ELSE IF c.dysk >= DETECTION_CONFIRM_WINDOWS
    THEN [tremor |-> 0, dysk |-> ScaleIntensity(e.dysk),
          tremor_ema |-> e.tremor, dysk_ema |-> e.dysk]
    ELSE IF c.none >= CLEAR_CONFIRM_WINDOWS
    THEN [tremor |-> 0, dysk |-> 0, tremor_ema |-> 0, dysk_ema |-> 0]
    ELSE [tremor |-> 0, dysk |-> 0,
          tremor_ema |-> e.tremor, dysk_ema |-> e.dysk]

\* variant: a label is published on the first window of its streak
Publication_ConfirmAtOnce(c, e) ==
    IF c.tremor >= 1
    THEN [tremor |-> ScaleIntensity(e.tremor), dysk |-> 0,
          tremor_ema |-> e.tremor, dysk_ema |-> e.dysk]
    ELSE IF c.dysk >= 1
    THEN [tremor |-> 0, dysk |-> ScaleIntensity(e.dysk),
          tremor_ema |-> e.tremor, dysk_ema |-> e.dysk]
    ELSE IF c.none >= CLEAR_CONFIRM_WINDOWS
    THEN [tremor |-> 0, dysk |-> 0, tremor_ema |-> 0, dysk_ema |-> 0]
    ELSE [tremor |-> tremor_intensity, dysk |-> dysk_intensity,
          tremor_ema |-> e.tremor, dysk_ema |-> e.dysk]

\* variant: the outputs are cleared on the second NONE window
Publication_ClearEarly(c, e) ==
    IF c.tremor >= DETECTION_CONFIRM_WINDOWS
    THEN [tremor |-> ScaleIntensity(e.tremor), dysk |-> 0,
          tremor_ema |-> e.tremor, dysk_ema |-> e.dysk]
    ELSE IF c.dysk >= DETECTION_CONFIRM_WINDOWS
    THEN [tremor |-> 0, dysk |-> ScaleIntensity(e.dysk),
          tremor_ema |-> e.tremor, dysk_ema |-> e.dysk]
    ELSE IF c.none >= CLEAR_CONFIRM_WINDOWS - 1
    THEN [tremor |-> 0, dysk |-> 0, tremor_ema |-> 0, dysk_ema |-> 0]
    ELSE [tremor |-> tremor_intensity, dysk |-> dysk_intensity,
          tremor_ema |-> e.tremor, dysk_ema |-> e.dysk]

\* Lines 277-296: published intensities and accumulators, given the
\* updated streaks c and the updated accumulators e.
Publication(c, e) ==
    IF c.tremor >= DETECTION_CONFIRM_WINDOWS
    THEN [tremor |-> ScaleIntensity(e.tremor), dysk |-> 0,
          tremor_ema |-> e.tremor, dysk_ema |-> e.dysk]
    ELSE IF c.dysk >= DETECTION_CONFIRM_WINDOWS
    THEN [tremor |-> 0, dysk |-> ScaleIntensity(e.dysk),
          tremor_ema |-> e.tremor, dysk_ema |-> e.dysk]
    ELSE IF c.none >= CLEAR_CONFIRM_WINDOWS
    THEN [tremor |-> 0, dysk |-> 0, tremor_ema |-> 0, dysk_ema |-> 0]
    ELSE [tremor |-> tremor_intensity, dysk |-> dysk_intensity,
          tremor_ema |-> e.tremor, dysk_ema |-> e.dysk]

\* Lines 241-296 of process_window.
ConfirmDetection(st) ==
    LET a == RawClassification(st)
        c == StreakUpdate(a.condition)
        e == SmoothUpdate(a.condition, a.intensity)
        p == Publication(c, e)
    IN  /\ fft_initialized' = a.initialized
        /\ raw_detection' = a.condition
        /\ raw_intensity' = a.intensity
        /\ tremor_consecutive' = c.tremor
        /\ dysk_consecutive' = c.dysk
        /\ none_consecutive' = c.none
        /\ tremor_intensity' = p.tremor
        /\ dysk_intensity' = p.dysk
        /\ tremor_ema_intensity' = p.tremor_ema
        /\ dysk_ema_intensity' = p.dysk_ema

\* ------------------------------------------------------------------------
\* Gait-freeze automaton (fog_detection.cpp, process_fog_detection)
\* ------------------------------------------------------------------------
\* (steps_in_window / window_duration_sec) * 60.0f
Cadence(steps) == (steps * 60 * TARGET_SAMPLE_RATE_HZ) \div WINDOW_SIZE

\* variant: no upper limit on the cadence of a walking window
currently_walking_NoCadenceMax(steps, variance) ==
    /\ steps >= MIN_STEPS_FOR_WALKING
    /\ Cadence(steps) >= WALKING_CADENCE_MIN
    /\ variance >= WALKING_VARIANCE_MIN
    /\ variance <= WALKING_VARIANCE_MAX

currently_walking(steps, variance) ==
    /\ steps >= MIN_STEPS_FOR_WALKING
    /\ Cadence(steps) >= WALKING_CADENCE_MIN
    /\ Cadence(steps) <= WALKING_CADENCE_MAX
    /\ variance >= WALKING_VARIANCE_MIN
    /\ variance <= WALKING_VARIANCE_MAX

freeze_indicators(steps, variance, walking_start) ==
    /\ Cadence(steps) < FREEZE_CADENCE_MAX
    /\ variance < FREEZE_VARIANCE_MAX
    /\ walking_start > 0

\* case FOG_NOT_WALKING
CaseNotWalking(walking, cww, cfw, current_time) ==
    IF walking /\ Inc8(cww) >= 1
    THEN /\ fog_state' = "FOG_WALKING"
         /\ walking_start_time' = current_time
         /\ consecutive_walking_windows' = Inc8(cww)
         /\ consecutive_freeze_windows' = 0
         /\ UNCHANGED <<freeze_start_time, freeze_confirmed_start>>
    ELSE /\ fog_state' = "FOG_NOT_WALKING"
         /\ consecutive_walking_windows' = IF walking THEN Inc8(cww) ELSE 0
         /\ consecutive_freeze_windows' = cfw
         /\ UNCHANGED <<walking_start_time, freeze_start_time,
                        freeze_confirmed_start>>

\* variant: freeze indicators after enough walking confirm the freeze at once
CaseWalking_NoPotential(walking, freeze, cww, cfw, current_time) ==
    LET walking_duration == Sub32(current_time, walking_start_time)
    IN  IF walking
        THEN /\ fog_state' = "FOG_WALKING"
             /\ consecutive_walking_windows' = cww
             /\ consecutive_freeze_windows' = cfw
             /\ UNCHANGED <<walking_start_time, freeze_start_time,
                            freeze_confirmed_start>>
        ELSE IF freeze /\ walking_duration >= MIN_WALKING_DURATION_MS
        THEN /\ fog_state' = "FOG_FREEZE_CONFIRMED"
             /\ freeze_start_time' = current_time
             /\ consecutive_freeze_windows' = 1
             /\ consecutive_walking_windows' = cww
             /\ UNCHANGED <<walking_start_time, freeze_confirmed_start>>
        ELSE /\ fog_state' = "FOG_NOT_WALKING"
             /\ consecutive_walking_windows' = 0
             /\ consecutive_freeze_windows' = cfw
             /\ UNCHANGED <<walking_start_time, freeze_start_time,
                            freeze_confirmed_start>>

\* variant: the walking duration is not checked
CaseWalking_AnyDuration(walking, freeze, cww, cfw, current_time) ==
    LET walking_duration == Sub32(current_time, walking_start_time)
    IN  IF walking
        THEN /\ fog_state' = "FOG_WALKING"
             /\ consecutive_walking_windows' = cww
             /\ consecutive_freeze_windows' = cfw
             /\ UNCHANGED <<walking_start_time, freeze_start_time,
                            freeze_confirmed_start>>
        ELSE IF freeze
        THEN /\ fog_state' = "FOG_POTENTIAL_FREEZE"
             /\ freeze_start_time' = current_time
             /\ consecutive_freeze_windows' = 1
             /\ consecutive_walking_windows' = cww
             /\ UNCHANGED <<walking_start_time, freeze_confirmed_start>>
        ELSE /\ fog_state' = "FOG_NOT_WALKING"
             /\ consecutive_walking_windows' = 0
             /\ consecutive_freeze_windows' = cfw
             /\ UNCHANGED <<walking_start_time, freeze_start_time,
                            freeze_confirmed_start>>

\* case FOG_WALKING
CaseWalking(walking, freeze, cww, cfw, current_time) ==
    LET walking_duration == Sub32(current_time, walking_start_time)
    IN  IF walking
        THEN /\ fog_state' = "FOG_WALKING"
             /\ consecutive_walking_windows' = cww
             /\ consecutive_freeze_windows' = cfw
             /\ UNCHANGED <<walking_start_time, freeze_start_time,
                            freeze_confirmed_start>>
        ELSE IF freeze /\ walking_duration >= MIN_WALKING_DURATION_MS
        THEN /\ fog_state' = "FOG_POTENTIAL_FREEZE"
             /\ freeze_start_time' = current_time
             /\ consecutive_freeze_windows' = 1
             /\ consecutive_walking_windows' = cww
             /\ UNCHANGED <<walking_start_time, freeze_confirmed_start>>
        ELSE /\ fog_state' = "FOG_NOT_WALKING"
             /\ consecutive_walking_windows' = 0
             /\ consecutive_freeze_windows' = cfw
             /\ UNCHANGED <<walking_start_time, freeze_start_time,
                            freeze_confirmed_start>>

\* variant: continued freeze indicators confirm the freeze without delay
CasePotentialFreeze_NoDelay(walking, freeze, cww, cfw, current_time) ==
    LET freeze_duration == Sub32(current_time, freeze_start_time)
    IN  IF walking
        THEN /\ fog_state' = "FOG_WALKING"
             /\ consecutive_freeze_windows' = 0
             /\ consecutive_walking_windows' = cww
             /\ UNCHANGED <<walking_start_time, freeze_start_time,
                            freeze_confirmed_start>>
        ELSE IF freeze
        THEN /\ consecutive_freeze_windows' = Inc8(cfw)
             /\ fog_state' = "FOG_FREEZE_CONFIRMED"
             /\ consecutive_walking_windows' = cww
             /\ UNCHANGED <<walking_start_time, freeze_start_time,
                            freeze_confirmed_start>>
        ELSE /\ fog_state' = "FOG_NOT_WALKING"
             /\ consecutive_walking_windows' = 0
             /\ consecutive_freeze_windows' = 0
             /\ walking_start_time' = 0
             /\ UNCHANGED <<freeze_start_time, freeze_confirmed_start>>

\* variant: confirmation also waits for a third freeze window
CasePotentialFreeze_ThreeWindows(walking, freeze, cww, cfw, current_time) ==
    LET freeze_duration == Sub32(current_time, freeze_start_time)
    IN  IF walking
        THEN /\ fog_state' = "FOG_WALKING"
             /\ consecutive_freeze_windows' = 0
             /\ consecutive_walking_windows' = cww
             /\ UNCHANGED <<walking_start_time, freeze_start_time,
                            freeze_confirmed_start>>
        ELSE IF freeze
        THEN /\ consecutive_freeze_windows' = Inc8(cfw)
             /\ fog_state' = IF freeze_duration >= FREEZE_CONFIRMATION_MS
                                /\ Inc8(cfw) >= 3
                             THEN "FOG_FREEZE_CONFIRMED"
                             ELSE "FOG_POTENTIAL_FREEZE"
             /\ consecutive_walking_windows' = cww
             /\ UNCHANGED <<walking_start_time, freeze_start_time,
                            freeze_confirmed_start>>
        ELSE /\ fog_state' = "FOG_NOT_WALKING"
             /\ consecutive_walking_windows' = 0
             /\ consecutive_freeze_windows' = 0
             /\ walking_start_time' = 0
             /\ UNCHANGED <<freeze_start_time, freeze_confirmed_start>>

\* variant: the ambiguous-stillness reset keeps the walking start
CasePotentialFreeze_KeepWalkingStart(walking, freeze, cww, cfw, current_time) ==
    LET freeze_duration == Sub32(current_time, freeze_start_time)
    IN  IF walking
        THEN /\ fog_state' = "FOG_WALKING"
             /\ consecutive_freeze_windows' = 0
             /\ consecutive_walking_windows' = cww
             /\ UNCHANGED <<walking_start_time, freeze_start_time,
                            freeze_confirmed_start>>
        ELSE IF freeze
        THEN /\ consecutive_freeze_windows' = Inc8(cfw)
             /\ fog_state' = IF freeze_duration >= FREEZE_CONFIRMATION_MS
                             THEN "FOG_FREEZE_CONFIRMED"
                             ELSE "FOG_POTENTIAL_FREEZE"
             /\ consecutive_walking_windows' = cww
             /\ UNCHANGED <<walking_start_time, freeze_start_time,
                            freeze_confirmed_start>>
        ELSE /\ fog_state' = "FOG_NOT_WALKING"
             /\ consecutive_walking_windows' = 0
             /\ consecutive_freeze_windows' = 0
             /\ UNCHANGED <<walking_start_time, freeze_start_time,
                            freeze_confirmed_start>>

\* variant: resuming to walk restarts the walking-start timestamp
CasePotentialFreeze_RestampOnResume(walking, freeze, cww, cfw, current_time) ==
    LET freeze_duration == Sub32(current_time, freeze_start_time)
    IN  IF walking
        THEN /\ fog_state' = "FOG_WALKING"
             /\ consecutive_freeze_windows' = 0
             /\ consecutive_walking_windows' = cww
             /\ walking_start_time' = current_time
             /\ UNCHANGED <<freeze_start_time, freeze_confirmed_start>>
        ELSE IF freeze
        THEN /\ consecutive_freeze_windows' = Inc8(cfw)
             /\ fog_state' = IF freeze_duration >= FREEZE_CONFIRMATION_MS
                             THEN "FOG_FREEZE_CONFIRMED"
                             ELSE "FOG_POTENTIAL_FREEZE"
             /\ consecutive_walking_windows' = cww
             /\ UNCHANGED <<walking_start_time, freeze_start_time,
                            freeze_confirmed_start>>
        ELSE /\ fog_state' = "FOG_NOT_WALKING"
             /\ consecutive_walking_windows' = 0
             /\ consecutive_freeze_windows' = 0
             /\ walking_start_time' = 0
             /\ UNCHANGED <<freeze_start_time, freeze_confirmed_start>>

\* case FOG_POTENTIAL_FREEZE
CasePotentialFreeze(walking, freeze, cww, cfw, current_time) ==
    LET freeze_duration == Sub32(current_time, freeze_start_time)
    IN  IF walking
        THEN /\ fog_state' = "FOG_WALKING"
             /\ consecutive_freeze_windows' = 0
             /\ consecutive_walking_windows' = cww
             /\ UNCHANGED <<walking_start_time, freeze_start_time,
                            freeze_confirmed_start>>
        ELSE IF freeze
        THEN /\ consecutive_freeze_windows' = Inc8(cfw)
             /\ fog_state' = IF freeze_duration >= FREEZE_CONFIRMATION_MS
                             THEN "FOG_FREEZE_CONFIRMED"
                             ELSE "FOG_POTENTIAL_FREEZE"
             /\ consecutive_walking_windows' = cww
             /\ UNCHANGED <<walking_start_time, freeze_start_time,
                            freeze_confirmed_start>>
        ELSE /\ fog_state' = "FOG_NOT_WALKING"
             /\ consecutive_walking_windows' = 0
             /\ consecutive_freeze_windows' = 0
             /\ walking_start_time' = 0
             /\ UNCHANGED <<freeze_start_time, freeze_confirmed_start>>

\* variant: the 15000 ms timeout never fires
CaseFreezeConfirmed_NoTimeout(walking, cww, cfw, current_time) ==
    LET started == IF freeze_confirmed_start = 0 THEN current_time
                   ELSE freeze_confirmed_start
        confirmed_duration == Sub32(current_time, started)
    IN  IF walking
        THEN /\ fog_state' = "FOG_WALKING"
             /\ consecutive_freeze_windows' = 0
             /\ freeze_confirmed_start' = 0
             /\ consecutive_walking_windows' = cww
             /\ UNCHANGED <<walking_start_time, freeze_start_time>>
        ELSE IF FALSE
        THEN /\ fog_state' = "FOG_NOT_WALKING"
             /\ consecutive_freeze_windows' = 0
             /\ consecutive_walking_windows' = 0
             /\ walking_start_time' = 0
             /\ freeze_confirmed_start' = 0
             /\ UNCHANGED freeze_start_time
        ELSE /\ fog_state' = "FOG_FREEZE_CONFIRMED"
             /\ freeze_confirmed_start' = started
             /\ consecutive_walking_windows' = cww
             /\ consecutive_freeze_windows' = cfw
             /\ UNCHANGED <<walking_start_time, freeze_start_time>>

\* variant: recovery leaves the freeze-confirmed timestamp set
CaseFreezeConfirmed_KeepStamp(walking, cww, cfw, current_time) ==
    LET started == IF freeze_confirmed_start = 0 THEN current_time
                   ELSE freeze_confirmed_start
        confirmed_duration == Sub32(current_time, started)
    IN  IF walking
        THEN /\ fog_state' = "FOG_WALKING"
             /\ consecutive_freeze_windows' = 0
             /\ freeze_confirmed_start' = started
             /\ consecutive_walking_windows' = cww
             /\ UNCHANGED <<walking_start_time, freeze_start_time>>
        ELSE IF confirmed_duration >= MAX_FOG_DURATION_MS
        THEN /\ fog_state' = "FOG_NOT_WALKING"
             /\ consecutive_freeze_windows' = 0
             /\ consecutive_walking_windows' = 0
             /\ walking_start_time' = 0
             /\ freeze_confirmed_start' = 0
             /\ UNCHANGED freeze_start_time
        ELSE /\ fog_state' = "FOG_FREEZE_CONFIRMED"
             /\ freeze_confirmed_start' = started
             /\ consecutive_walking_windows' = cww
             /\ consecutive_freeze_windows' = cfw
             /\ UNCHANGED <<walking_start_time, freeze_start_time>>

\* variant: a window that neither walks nor shows freeze indicators ends the
\* confirmed freeze
CaseFreezeConfirmed_NeedsIndicators(walking, cww, cfw, current_time) ==
    LET started == IF freeze_confirmed_start = 0 THEN current_time
                   ELSE freeze_confirmed_start
        confirmed_duration == Sub32(current_time, started)
    IN  IF walking
        THEN /\ fog_state' = "FOG_WALKING"
             /\ consecutive_freeze_windows' = 0
             /\ freeze_confirmed_start' = 0
             /\ consecutive_walking_windows' = cww
             /\ UNCHANGED <<walking_start_time, freeze_start_time>>
        ELSE IF \/ confirmed_duration >= MAX_FOG_DURATION_MS
                \/ ~freeze_indicators(steps_in_window, win_variance,
                                      walking_start_time)
        THEN /\ fog_state' = "FOG_NOT_WALKING"
             /\ consecutive_freeze_windows' = 0
             /\ consecutive_walking_windows' = 0
             /\ walking_start_time' = 0
             /\ freeze_confirmed_start' = 0
             /\ UNCHANGED freeze_start_time
        ELSE /\ fog_state' = "FOG_FREEZE_CONFIRMED"
             /\ freeze_confirmed_start' = started
             /\ consecutive_walking_windows' = cww
             /\ consecutive_freeze_windows' = cfw
             /\ UNCHANGED <<walking_start_time, freeze_start_time>>

\* variant: the timeout leaves the freeze-confirmed timestamp set
CaseFreezeConfirmed_TimeoutKeepsStamp(walking, cww, cfw, current_time) ==
    LET started == IF freeze_confirmed_start = 0 THEN current_time
                   ELSE freeze_confirmed_start
        confirmed_duration == Sub32(current_time, started)
    IN  IF walking
        THEN /\ fog_state' = "FOG_WALKING"
             /\ consecutive_freeze_windows' = 0
             /\ freeze_confirmed_start' = 0
             /\ consecutive_walking_windows' = cww
             /\ UNCHANGED <<walking_start_time, freeze_start_time>>
        ELSE IF confirmed_duration >= MAX_FOG_DURATION_MS
        THEN /\ fog_state' = "FOG_NOT_WALKING"
             /\ consecutive_freeze_windows' = 0
             /\ consecutive_walking_windows' = 0
             /\ walking_start_time' = 0
             /\ freeze_confirmed_start' = started
             /\ UNCHANGED freeze_start_time
        ELSE /\ fog_state' = "FOG_FREEZE_CONFIRMED"
             /\ freeze_confirmed_start' = started
             /\ consecutive_walking_windows' = cww
             /\ consecutive_freeze_windows' = cfw
             /\ UNCHANGED <<walking_start_time, freeze_start_time>>

\* case FOG_FREEZE_CONFIRMED
CaseFreezeConfirmed(walking, cww, cfw, current_time) ==
    LET started == IF freeze_confirmed_start = 0 THEN current_time
                   ELSE freeze_confirmed_start
        confirmed_duration == Sub32(current_time, started)
    IN  IF walking
        THEN /\ fog_state' = "FOG_WALKING"
             /\ consecutive_freeze_windows' = 0
             /\ freeze_confirmed_start' = 0
             /\ consecutive_walking_windows' = cww
             /\ UNCHANGED <<walking_start_time, freeze_start_time>>
        ELSE IF confirmed_duration >= MAX_FOG_DURATION_MS
        THEN /\ fog_state' = "FOG_NOT_WALKING"
             /\ consecutive_freeze_windows' = 0
             /\ consecutive_walking_windows' = 0
             /\ walking_start_time' = 0
             /\ freeze_confirmed_start' = 0
             /\ UNCHANGED freeze_start_time
        ELSE /\ fog_state' = "FOG_FREEZE_CONFIRMED"
             /\ freeze_confirmed_start' = started
             /\ consecutive_walking_windows' = cww
             /\ consecutive_freeze_windows' = cfw
             /\ UNCHANGED <<walking_start_time, freeze_start_time>>

\* variant: the alarm is raised for an unconfirmed freeze as well
FogStatus_AlsoPotential(state) ==
    IF state \in {"FOG_POTENTIAL_FREEZE", "FOG_FREEZE_CONFIRMED"} THEN 1 ELSE 0

\* fog_status = (state == FOG_FREEZE_CONFIRMED) ? 1 : 0
FogStatus(state) == IF state = "FOG_FREEZE_CONFIRMED" THEN 1 ELSE 0

\* variant: the safety check before the transition table is left out
process_fog_detection_NoSafetyCheck(variance, current_time) ==
    LET cadence == Cadence(steps_in_window)
        walking == currently_walking(steps_in_window, variance)
        freeze == freeze_indicators(steps_in_window, variance,
                                    walking_start_time)
        \* safety check: freeze state without walking context
        invalid == FALSE
        state0 == IF invalid THEN "FOG_NOT_WALKING" ELSE fog_state
        cww == IF invalid THEN 0 ELSE consecutive_walking_windows
        cfw == IF invalid THEN 0 ELSE consecutive_freeze_windows
    IN  /\ CASE state0 = "FOG_NOT_WALKING" ->
                    CaseNotWalking(walking, cww, cfw, current_time)
             [] state0 = "FOG_WALKING" ->
                    CaseWalking(walking, freeze, cww, cfw, current_time)
             [] state0 = "FOG_POTENTIAL_FREEZE" ->
                    CasePotentialFreeze(walking, freeze, cww, cfw, current_time)
             [] state0 = "FOG_FREEZE_CONFIRMED" ->
                    CaseFreezeConfirmed(walking, cww, cfw, current_time)
        /\ previous_cadence' = cadence
        /\ steps_in_window' = 0
        /\ fog_status' = FogStatus(fog_state')

process_fog_detection(variance, current_time) ==
    LET cadence == Cadence(steps_in_window)
        walking == currently_walking(steps_in_window, variance)
        freeze == freeze_indicators(steps_in_window, variance,
                                    walking_start_time)
        \* safety check: freeze state without walking context
        invalid == /\ fog_state \in {"FOG_POTENTIAL_FREEZE",
                                     "FOG_FREEZE_CONFIRMED"}
                   /\ walking_start_time = 0
        state0 == IF invalid THEN "FOG_NOT_WALKING" ELSE fog_state
        cww == IF invalid THEN 0 ELSE consecutive_walking_windows
        cfw == IF invalid THEN 0 ELSE consecutive_freeze_windows
    IN  /\ CASE state0 = "FOG_NOT_WALKING" ->
                    CaseNotWalking(walking, cww, cfw, current_time)
             [] state0 = "FOG_WALKING" ->
                    CaseWalking(walking, freeze, cww, cfw, current_time)
             [] state0 = "FOG_POTENTIAL_FREEZE" ->
                    CasePotentialFreeze(walking, freeze, cww, cfw, current_time)
             [] state0 = "FOG_FREEZE_CONFIRMED" ->
                    CaseFreezeConfirmed(walking, cww, cfw, current_time)
        /\ previous_cadence' = cadence
        /\ steps_in_window' = 0
        /\ fog_status' = FogStatus(fog_state')

\* ------------------------------------------------------------------------
\* Operations
\* ------------------------------------------------------------------------
\* One window of acquisition (sensor.cpp, read_sensor_data, WINDOW_SIZE
\* samples): the buffers are overwritten, steps are counted, the clock
\* advances by dt and the window is marked ready.
AcquireWindow(steps, variance, tremor_peak, dysk_peak, noise_mean, dt) ==
    /\ ~window_ready
    /\ now' = now + dt
    /\ window_ready' = TRUE
    /\ steps_in_window' = (steps_in_window + steps) % UINT16_MOD
    /\ win_variance' = variance
    /\ win_tremor_peak' = tremor_peak
    /\ win_dysk_peak' = dysk_peak
    /\ win_noise' = noise_mean
    /\ UNCHANGED <<detVars, fogVars, isrVars, sampleVars, loopVars,
                   statusVars, bleVars>>

\* signal_processing.cpp, process_window: st is the status the transform
\* initialisation returns if it is attempted in this call.
process_window(st) ==
    /\ window_ready
    /\ window_ready' = FALSE
    /\ ConfirmDetection(st)
    /\ process_fog_detection(win_variance, now)
    /\ UNCHANGED <<now, winVars>>

Init ==
    /\ now = BootTime
    /\ window_ready = FALSE
    /\ steps_in_window = 0
    /\ win_variance = 0
    /\ win_tremor_peak = 0
    /\ win_dysk_peak = 0
    /\ win_noise = 0
    /\ fft_initialized = FALSE
    /\ raw_detection = "NONE"
    /\ raw_intensity = 0
    /\ tremor_consecutive = 0
    /\ dysk_consecutive = 0
    /\ none_consecutive = 0
    /\ tremor_ema_intensity = 0
    /\ dysk_ema_intensity = 0
    /\ tremor_intensity = 0
    /\ dysk_intensity = 0
    /\ fog_state = "FOG_NOT_WALKING"
    /\ walking_start_time = 0
    /\ freeze_start_time = 0
    /\ freeze_confirmed_start = 0
    /\ previous_cadence = 0
    /\ consecutive_walking_windows = 0
    /\ consecutive_freeze_windows = 0
    /\ fog_status = 0
    /\ new_data_available = FALSE
    /\ interrupt_count = 0
    /\ pending_samples = 0
    /\ read_status = "none"
    /\ sample_count = 0
    /\ last_sample_time_ms = 0
    /\ accel_magnitude_buffer = << >>
    /\ gyro_magnitude_buffer = << >>
    /\ buffer_index = 0
    /\ accel_baseline_ema = BASELINE_START
    /\ above_step_threshold = FALSE
    /\ last_step_time_ms = 0
    /\ pc = "top"
    /\ loop_now = BootTime
    /\ last_interrupt_time = BootTime
    /\ last_poll_time = 0
    /\ poll_status = 0
    /\ last_status_time = 0
    /\ last_ble_connected = FALSE
    /\ last_tremor = 0
    /\ last_dysk = 0
    /\ last_fog = 0
    /\ ble_connected = FALSE
    /\ previous_tremor = 0
    /\ previous_dysk = 0
    /\ previous_fog = 0
    /\ ble_written = {}

ArmStatus == {"ARM_MATH_SUCCESS", "ARM_MATH_ARGUMENT_ERROR"}

\* ------------------------------------------------------------------------
\* Sample acquisition (sensor.cpp)
\* ------------------------------------------------------------------------
\* variant: the handler also advances the window buffer index
data_ready_isr_Indexing ==
    /\ new_data_available' = TRUE
    /\ interrupt_count' = interrupt_count + 1
    /\ pending_samples' = pending_samples + 1
    /\ buffer_index' = (buffer_index + 1) % WINDOW_SIZE
    /\ UNCHANGED <<now, window_ready, steps_in_window, winVars, detVars,
                   fogVars, read_status, sample_count, last_sample_time_ms,
                   accel_magnitude_buffer, gyro_magnitude_buffer, stepVars,
                   loopVars, statusVars, bleVars>>

\* data_ready_isr: the handler of the sensor's data-ready signal.  It
\* interrupts the main loop between any two of its steps except inside the
\* __disable_irq section.
data_ready_isr ==
    /\ new_data_available' = TRUE
    /\ interrupt_count' = interrupt_count + 1
    /\ pending_samples' = pending_samples + 1
    /\ UNCHANGED <<now, window_ready, steps_in_window, winVars, detVars,
                   fogVars, sampleVars, loopVars, statusVars, bleVars>>

\* buffer[index] = value
StoreSample(buffer, index, value) ==
    [i \in (DOMAIN buffer) \cup {index} |->
        IF i = index THEN value ELSE buffer[i]]

\* variant: a step exactly MIN_STEP_INTERVAL_MS after the last one counts
StepDetection_AtInterval(accel_z) ==
    LET baseline == (BASELINE_EMA_ALPHA * accel_z
                     + (1000 - BASELINE_EMA_ALPHA) * accel_baseline_ema)
                    \div 1000
        vertical_deviation == IF accel_z >= baseline THEN accel_z - baseline
                                                     ELSE baseline - accel_z
        rising == vertical_deviation > STEP_THRESHOLD /\ ~above_step_threshold
        counted == /\ rising
                   /\ Sub32(now, last_step_time_ms) >= MIN_STEP_INTERVAL_MS
    IN  /\ accel_baseline_ema' = baseline
        /\ steps_in_window' = IF counted
                              THEN (steps_in_window + 1) % UINT16_MOD
                              ELSE steps_in_window
        /\ last_step_time_ms' = IF counted THEN now ELSE last_step_time_ms
        /\ above_step_threshold' =
               IF rising THEN TRUE
               ELSE IF 2 * vertical_deviation < STEP_THRESHOLD THEN FALSE
               ELSE above_step_threshold

\* Lines 265-287: step detection on the vertical axis.
StepDetection(accel_z) ==
    LET baseline == (BASELINE_EMA_ALPHA * accel_z
                     + (1000 - BASELINE_EMA_ALPHA) * accel_baseline_ema)
                    \div 1000
        vertical_deviation == IF accel_z >= baseline THEN accel_z - baseline
                                                     ELSE baseline - accel_z
        rising == vertical_deviation > STEP_THRESHOLD /\ ~above_step_threshold
        counted == /\ rising
                   /\ Sub32(now, last_step_time_ms) > MIN_STEP_INTERVAL_MS
    IN  /\ accel_baseline_ema' = baseline
        /\ steps_in_window' = IF counted
                              THEN (steps_in_window + 1) % UINT16_MOD
                              ELSE steps_in_window
        /\ last_step_time_ms' = IF counted THEN now ELSE last_step_time_ms
        /\ above_step_threshold' =
               IF rising THEN TRUE
               ELSE IF 2 * vertical_deviation < STEP_THRESHOLD THEN FALSE
               ELSE above_step_threshold

\* variant: a failed gyroscope transfer does not end the call
read_sensor_data_IgnoreGyroFailure(status, accel, gyro, accel_z, w) ==
    IF status = "accel_failed"
    THEN /\ read_status' = status
         /\ UNCHANGED <<window_ready, steps_in_window, winVars, sample_count,
                        last_sample_time_ms, bufVars, stepVars>>
    ELSE /\ read_status' = status
         /\ last_sample_time_ms' = now
         /\ sample_count' = sample_count + 1
         /\ accel_magnitude_buffer' =
                StoreSample(accel_magnitude_buffer, buffer_index, accel)
         /\ gyro_magnitude_buffer' =
                StoreSample(gyro_magnitude_buffer, buffer_index, gyro)
         /\ IF buffer_index + 1 >= WINDOW_SIZE
            THEN /\ buffer_index' = 0
                 /\ window_ready' = TRUE
                 /\ win_variance' = w[1]
                 /\ win_tremor_peak' = w[2]
                 /\ win_dysk_peak' = w[3]
                 /\ win_noise' = w[4]
            ELSE /\ buffer_index' = buffer_index + 1
                 /\ UNCHANGED <<window_ready, winVars>>
         /\ StepDetection(accel_z)

\* variant: the index wraps one sample late
read_sensor_data_LateWrap(status, accel, gyro, accel_z, w) ==
    IF status # "ok"
    THEN /\ read_status' = status
         /\ UNCHANGED <<window_ready, steps_in_window, winVars, sample_count,
                        last_sample_time_ms, bufVars, stepVars>>
    ELSE /\ read_status' = status
         /\ last_sample_time_ms' = now
         /\ sample_count' = sample_count + 1
         /\ accel_magnitude_buffer' =
                StoreSample(accel_magnitude_buffer, buffer_index, accel)
         /\ gyro_magnitude_buffer' =
                StoreSample(gyro_magnitude_buffer, buffer_index, gyro)
         /\ IF buffer_index + 1 > WINDOW_SIZE
            THEN /\ buffer_index' = 0
                 /\ window_ready' = TRUE
                 /\ win_variance' = w[1]
                 /\ win_tremor_peak' = w[2]
                 /\ win_dysk_peak' = w[3]
                 /\ win_noise' = w[4]
            ELSE /\ buffer_index' = buffer_index + 1
                 /\ UNCHANGED <<window_ready, winVars>>
         /\ StepDetection(accel_z)

\* read_sensor_data.  status is the outcome of the two burst reads, accel
\* and gyro the magnitudes of the sample, accel_z its vertical component,
\* and w the statistics <<variance, tremor_peak, dysk_peak, noise_mean>> of
\* the window in case this sample completes it.
read_sensor_data(status, accel, gyro, accel_z, w) ==
    IF status # "ok"
    THEN /\ read_status' = status
         /\ UNCHANGED <<window_ready, steps_in_window, winVars, sample_count,
                        last_sample_time_ms, bufVars, stepVars>>
    ELSE /\ read_status' = status
         /\ last_sample_time_ms' = now
         /\ sample_count' = sample_count + 1
         /\ accel_magnitude_buffer' =
                StoreSample(accel_magnitude_buffer, buffer_index, accel)
         /\ gyro_magnitude_buffer' =
                StoreSample(gyro_magnitude_buffer, buffer_index, gyro)
         /\ IF buffer_index + 1 >= WINDOW_SIZE
            THEN /\ buffer_index' = 0
                 /\ window_ready' = TRUE
                 /\ win_variance' = w[1]
                 /\ win_tremor_peak' = w[2]
                 /\ win_dysk_peak' = w[3]
                 /\ win_noise' = w[4]
            ELSE /\ buffer_index' = buffer_index + 1
                 /\ UNCHANGED <<window_ready, winVars>>
         /\ StepDetection(accel_z)

BurstStatus == {"ok", "accel_failed", "gyro_failed"}

\* ------------------------------------------------------------------------
\* Wireless notifier (ble_comm.cpp)
\* ------------------------------------------------------------------------
\* What ble_event_queue.dispatch_once() delivers to PDGapEventHandler.
GapEvents == {"none", "connected", "connect_failed", "disconnected"}

\* ble_connected after the event: onConnectionComplete sets it only for a
\* successful connection, onDisconnectionComplete clears it.
GapEventHandler(ev) ==
    IF ev = "connected" THEN TRUE
    ELSE IF ev = "disconnected" THEN FALSE
    ELSE ble_connected

\* The events the stack can deliver in the current connection state.
GapEventPossible(ev) ==
    \/ ev = "none"
    \/ ev \in {"connected", "connect_failed"} /\ ~ble_connected
    \/ ev = "disconnected" /\ ble_connected

\* variant: no change detection, every call writes all three values
update_ble_characteristics_NoCache(connected) ==
    IF ~connected
    THEN /\ ble_written' = {}
         /\ UNCHANGED <<previous_tremor, previous_dysk, previous_fog>>
    ELSE /\ previous_tremor' = tremor_intensity
         /\ previous_dysk' = dysk_intensity
         /\ previous_fog' = fog_status
         /\ ble_written' = {"tremor", "dysk", "fog"}

\* update_ble_characteristics, with connected the value of ble_connected
\* (gatt_server is set before advertising starts, so it is not null when a
\* client is connected).
update_ble_characteristics(connected) ==
    IF ~connected
    THEN /\ ble_written' = {}
         /\ UNCHANGED <<previous_tremor, previous_dysk, previous_fog>>
    ELSE /\ previous_tremor' = tremor_intensity
         /\ previous_dysk' = dysk_intensity
         /\ previous_fog' = fog_status
         /\ ble_written' =
                {c \in {"tremor", "dysk", "fog"} :
                    \/ c = "tremor" /\ tremor_intensity # previous_tremor
                    \/ c = "dysk" /\ dysk_intensity # previous_dysk
                    \/ c = "fog" /\ fog_status # previous_fog}

\* main.cpp lines 217-250: one event is dispatched, the status report is
\* refreshed if something changed or 5000 ms have passed, and the
\* characteristics are updated if a client is connected (by one of the two
\* calls, which exclude each other).
StatusSection(ev, current_time) ==
    LET connected == GapEventHandler(ev)
        status_changed == \/ connected # last_ble_connected
                          \/ tremor_intensity # last_tremor
                          \/ dysk_intensity # last_dysk
                          \/ fog_status # last_fog
        periodic_update ==
            Sub32(current_time, last_status_time) >= STATUS_PERIOD_MS
    IN  /\ GapEventPossible(ev)
        /\ ble_connected' = connected
        /\ IF status_changed \/ periodic_update
           THEN /\ last_status_time' = current_time
                /\ last_ble_connected' = connected
                /\ last_tremor' = tremor_intensity
                /\ last_dysk' = dysk_intensity
                /\ last_fog' = fog_status
           ELSE UNCHANGED statusVars
        /\ IF connected
           THEN update_ble_characteristics(connected)
           ELSE /\ ble_written' = {}
                /\ UNCHANGED <<previous_tremor, previous_dysk, previous_fog>>

\* ------------------------------------------------------------------------
\* Main loop (main.cpp, lines 158-254), one action per step between which
\* the signal handler can run
\* ------------------------------------------------------------------------
\* variant: the fallback does not wait for 100 ms without a drained signal
LoopTop_PollAtOnce ==
    /\ pc = "top"
    /\ loop_now' = now
    /\ IF new_data_available
       THEN pc' = "drain_test" /\ UNCHANGED last_poll_time
       ELSE IF Sub32(now, last_poll_time) >= POLL_PERIOD_MS
       THEN pc' = "poll" /\ last_poll_time' = now
       ELSE pc' = "window" /\ UNCHANGED last_poll_time
    /\ UNCHANGED <<now, window_ready, steps_in_window, winVars, detVars,
                   fogVars, isrVars, sampleVars, last_interrupt_time,
                   poll_status, statusVars, bleVars>>

\* Lines 159-193: the clock is read, then the branch is chosen.
LoopTop ==
    /\ pc = "top"
    /\ loop_now' = now
    /\ IF new_data_available
       THEN pc' = "drain_test" /\ UNCHANGED last_poll_time
       ELSE IF /\ Sub32(now, last_interrupt_time) > POLL_AFTER_MS
               /\ Sub32(now, last_poll_time) >= POLL_PERIOD_MS
       THEN pc' = "poll" /\ last_poll_time' = now
       ELSE pc' = "window" /\ UNCHANGED last_poll_time
    /\ UNCHANGED <<now, window_ready, steps_in_window, winVars, detVars,
                   fogVars, isrVars, sampleVars, last_interrupt_time,
                   poll_status, statusVars, bleVars>>

\* Line 175: while (pending_samples > 0)
DrainTest ==
    /\ pc = "drain_test"
    /\ pc' = IF pending_samples > 0 THEN "drain_body" ELSE "window"
    /\ UNCHANGED <<now, window_ready, steps_in_window, winVars, detVars,
                   fogVars, isrVars, sampleVars, loop_now,
                   last_interrupt_time, last_poll_time, poll_status, statusVars, bleVars>>

\* Lines 176-177
DrainBody ==
    /\ pc = "drain_body"
    /\ new_data_available' = FALSE
    /\ last_interrupt_time' = loop_now
    /\ pc' = "drain_read"
    /\ UNCHANGED <<now, window_ready, steps_in_window, winVars, detVars,
                   fogVars, interrupt_count, pending_samples, sampleVars,
                   loop_now, last_poll_time, poll_status, statusVars, bleVars>>

\* Line 178
DrainRead(status, accel, gyro, accel_z, w) ==
    /\ pc = "drain_read"
    /\ read_sensor_data(status, accel, gyro, accel_z, w)
    /\ pc' = "drain_dec"
    /\ UNCHANGED <<now, detVars, fogVars, isrVars, loop_now,
                   last_interrupt_time, last_poll_time, poll_status, statusVars, bleVars>>

\* variant: the decrement is not protected; a signal handled between its
\* read and its write of the count is overwritten
DrainDec_Unprotected ==
    /\ pc = "drain_dec"
    /\ pending_samples' = IF pending_samples > 0 THEN pending_samples - 1
                                                 ELSE pending_samples
    /\ \/ UNCHANGED <<new_data_available, interrupt_count>>
       \/ /\ interrupt_count < MaxSignals
          /\ new_data_available' = TRUE
          /\ interrupt_count' = interrupt_count + 1
    /\ pc' = "drain_check"
    /\ UNCHANGED <<now, window_ready, steps_in_window, winVars, detVars,
                   fogVars, sampleVars, loop_now, last_interrupt_time,
                   last_poll_time, poll_status, statusVars, bleVars>>

\* Lines 181-183, with interrupts disabled
DrainDec ==
    /\ pc = "drain_dec"
    /\ pending_samples' = IF pending_samples > 0 THEN pending_samples - 1
                                                 ELSE pending_samples
    /\ pc' = "drain_check"
    /\ UNCHANGED <<now, window_ready, steps_in_window, winVars, detVars,
                   fogVars, new_data_available, interrupt_count, sampleVars,
                   loop_now, last_interrupt_time, last_poll_time, poll_status,
                   statusVars, bleVars>>

\* Line 186: if (pending_samples == 0)
DrainCheck ==
    /\ pc = "drain_check"
    /\ pc' = IF pending_samples = 0 THEN "drain_clear" ELSE "drain_test"
    /\ UNCHANGED <<now, window_ready, steps_in_window, winVars, detVars,
                   fogVars, isrVars, sampleVars, loop_now,
                   last_interrupt_time, last_poll_time, poll_status, statusVars, bleVars>>

\* Lines 187-188
DrainClear ==
    /\ pc = "drain_clear"
    /\ new_data_available' = FALSE
    /\ pc' = "window"
    /\ UNCHANGED <<now, window_ready, steps_in_window, winVars, detVars,
                   fogVars, interrupt_count, pending_samples, sampleVars,
                   loop_now, last_interrupt_time, last_poll_time, poll_status,
                   statusVars, bleVars>>

\* variant: a polled read takes one sample off the pending count
Poll_Draining(register_ok, status_reg, status, accel, gyro, accel_z, w) ==
    LET polled == IF register_ok THEN status_reg ELSE 0
        accel_ready == polled % 2 = 1
        gyro_ready == (polled \div 2) % 2 = 1
    IN  /\ pc = "poll"
        /\ poll_status' = polled
        /\ IF register_ok /\ accel_ready /\ gyro_ready
           THEN read_sensor_data(status, accel, gyro, accel_z, w)
           ELSE UNCHANGED <<window_ready, steps_in_window, winVars,
                            sampleVars>>
        /\ pending_samples' =
               IF register_ok /\ accel_ready /\ gyro_ready
                  /\ pending_samples > 0
               THEN pending_samples - 1
               ELSE pending_samples
        /\ pc' = "window"
        /\ UNCHANGED <<now, detVars, fogVars, new_data_available,
                       interrupt_count, loop_now,
                       last_interrupt_time, last_poll_time, statusVars,
                       bleVars>>

\* Lines 197-209: the status register is read (register_ok tells whether
\* the transfer succeeded, status_reg what the register holds) and, if bits
\* 0 and 1 are both set, one sample is read.
Poll(register_ok, status_reg, status, accel, gyro, accel_z, w) ==
    LET polled == IF register_ok THEN status_reg ELSE 0
        accel_ready == polled % 2 = 1
        gyro_ready == (polled \div 2) % 2 = 1
    IN  /\ pc = "poll"
        /\ poll_status' = polled
        /\ IF register_ok /\ accel_ready /\ gyro_ready
           THEN read_sensor_data(status, accel, gyro, accel_z, w)
           ELSE UNCHANGED <<window_ready, steps_in_window, winVars,
                            sampleVars>>
        /\ pc' = "window"
        /\ UNCHANGED <<now, detVars, fogVars, isrVars, loop_now,
                       last_interrupt_time, last_poll_time, statusVars,
                       bleVars>>

\* Lines 213-215
CheckWindow ==
    /\ pc = "window"
    /\ \E st \in ArmStatus :
           IF window_ready
           THEN process_window(st)
           ELSE UNCHANGED <<now, window_ready, steps_in_window, winVars,
                            detVars, fogVars>>
    /\ pc' = "ble"
    /\ UNCHANGED <<isrVars, sampleVars, loop_now, last_interrupt_time,
                   last_poll_time, poll_status, statusVars, bleVars>>

\* Lines 217-250, with ev the event the queue delivers
BleSection(ev) ==
    /\ pc = "ble"
    /\ StatusSection(ev, loop_now)
    /\ pc' = "sleep"
    /\ UNCHANGED <<now, window_ready, steps_in_window, winVars, detVars,
                   fogVars, isrVars, sampleVars, loop_now,
                   last_interrupt_time, last_poll_time, poll_status>>

\* Line 253: the iteration ends dt ms after it began.
Sleep(dt) ==
    /\ pc = "sleep"
    /\ now' = now + dt
    /\ pc' = "top"
    /\ UNCHANGED <<window_ready, steps_in_window, winVars, detVars, fogVars,
                   isrVars, sampleVars, loop_now, last_interrupt_time,
                   last_poll_time, poll_status, statusVars, bleVars>>

\* ------------------------------------------------------------------------
\* Environments: the windows the sensor can deliver, each
\* <<steps, variance, tremor_peak, dysk_peak, noise_mean>>
\* ------------------------------------------------------------------------
\* Detection environment: every label, weak to saturated intensities, a
\* near-static window whose spectrum would say TREMOR, nominal period.
DetWindows ==
    { <<0, 16, 40000, 0, 0>>,
      <<0, 100000, 20000, 20000, 1000>>,
      <<0, 100000, 7508, 0, 1000>>,
      <<0, 100000, 40000, 0, 0>>,
      <<0, 100000, 0, 10010, 1000>>,
      <<0, 100000, 12000, 50000, 2500>> }
DetPeriods == {3000}

DetWindowArrives ==
    \E w \in DetWindows, dt \in DetPeriods :
        /\ now + dt <= MaxDetTime
        /\ AcquireWindow(w[1], w[2], w[3], w[4], w[5], dt)

\* The main loop finds window_ready set and calls process_window.
ProcessReadyWindow ==
    /\ \E st \in ArmStatus : process_window(st)
    /\ UNCHANGED <<isrVars, sampleVars, loopVars, statusVars, bleVars>>

NextDet == DetWindowArrives \/ ProcessReadyWindow

SpecDet == Init /\ [][NextDet]_vars

\* Gait environment: walking windows (with and without a tremor in the
\* spectrum, and at the upper limits), freeze windows, windows that are
\* neither, and window periods shorter and longer than the timing
\* thresholds.
GaitWindows ==
    { <<4, 100000, 0, 0, 0>>,
      <<4, 100000, 40000, 0, 0>>,
      <<7, 300000, 0, 0, 0>>,
      <<0, 10000, 0, 0, 0>>,
      <<0, 15000, 0, 0, 0>>,
      <<1, 100000, 0, 0, 0>> }
GaitPeriods == {500, 3000}

GaitWindowArrives ==
    \E w \in GaitWindows, dt \in GaitPeriods :
        /\ now + dt <= MaxTime
        /\ AcquireWindow(w[1], w[2], w[3], w[4], w[5], dt)

Next == GaitWindowArrives \/ ProcessReadyWindow

Spec == Init /\ [][Next]_vars

\* Long-run environment: walking, freeze and ambiguous windows at the
\* nominal period, for long enough to cover a whole freeze episode and its
\* 15000 ms timeout.
LongWindows ==
    { <<4, 100000, 0, 0, 0>>,
      <<0, 10000, 0, 0, 0>>,
      <<1, 100000, 0, 0, 0>> }
LongPeriods == {3000}

LongWindowArrives ==
    \E w \in LongWindows, dt \in LongPeriods :
        /\ now + dt <= MaxLongTime
        /\ AcquireWindow(w[1], w[2], w[3], w[4], w[5], dt)

NextLong == LongWindowArrives \/ ProcessReadyWindow

SpecLong == Init /\ [][NextLong]_vars

\* The sensor keeps delivering windows (until the time bound) and the main
\* loop keeps running, so a ready window is eventually processed.
SpecLongFair ==
    /\ Init /\ [][NextLong]_vars
    /\ WF_vars(LongWindowArrives)
    /\ WF_vars(ProcessReadyWindow)

\* Fault-injection environment: the detector record (and the static
\* timestamp and the status byte) holds arbitrary values when the main loop
\* is entered, the program's own initial values among them; windows arrive
\* as in the long-run environment.
InitInject ==
    /\ now = BootTime
    /\ window_ready = FALSE
    /\ steps_in_window = 0
    /\ win_variance = 0
    /\ win_tremor_peak = 0
    /\ win_dysk_peak = 0
    /\ win_noise = 0
    /\ fft_initialized = FALSE
    /\ raw_detection = "NONE"
    /\ raw_intensity = 0
    /\ tremor_consecutive = 0
    /\ dysk_consecutive = 0
    /\ none_consecutive = 0
    /\ tremor_ema_intensity = 0
    /\ dysk_ema_intensity = 0
    /\ tremor_intensity = 0
    /\ dysk_intensity = 0
    /\ fog_state \in {"FOG_NOT_WALKING", "FOG_WALKING",
                      "FOG_POTENTIAL_FREEZE", "FOG_FREEZE_CONFIRMED"}
    /\ walking_start_time \in {0, BootTime}
    /\ freeze_start_time \in {0, BootTime}
    /\ freeze_confirmed_start \in {0, BootTime}
    /\ previous_cadence = 0
    /\ consecutive_walking_windows \in {0, 1}
    /\ consecutive_freeze_windows \in {0, 1}
    /\ fog_status \in {0, 1}
    /\ new_data_available = FALSE
    /\ interrupt_count = 0
    /\ pending_samples = 0
    /\ read_status = "none"
    /\ sample_count = 0
    /\ last_sample_time_ms = 0
    /\ accel_magnitude_buffer = << >>
    /\ gyro_magnitude_buffer = << >>
    /\ buffer_index = 0
    /\ accel_baseline_ema = BASELINE_START
    /\ above_step_threshold = FALSE
    /\ last_step_time_ms = 0
    /\ pc = "top"
    /\ loop_now = BootTime
    /\ last_interrupt_time = BootTime
    /\ last_poll_time = 0
    /\ poll_status = 0
    /\ last_status_time = 0
    /\ last_ble_connected = FALSE
    /\ last_tremor = 0
    /\ last_dysk = 0
    /\ last_fog = 0
    /\ ble_connected = FALSE
    /\ previous_tremor = 0
    /\ previous_dysk = 0
    /\ previous_fog = 0
    /\ ble_written = {}

InjectWindowArrives ==
    \E w \in LongWindows, dt \in LongPeriods :
        /\ now + dt <= MaxInjectTime
        /\ AcquireWindow(w[1], w[2], w[3], w[4], w[5], dt)

NextInject == InjectWindowArrives \/ ProcessReadyWindow

SpecInject == InitInject /\ [][NextInject]_vars


\* Cadence environment: step counts below, at and above the limits of the
\* walking range, each with variances just outside and exactly at the
\* limits of the walking range, and a freeze window.
CadenceWindows ==
    { <<st, va, 0, 0, 0>> :
          st \in {0, 1, 2, 6, 7, 8},
          va \in {49999, 50000, 300000, 300001} }
    \cup { <<0, 10000, 0, 0, 0>> }

CadenceWindowArrives ==
    \E w \in CadenceWindows, dt \in LongPeriods :
        /\ now + dt <= MaxCadenceTime
        /\ AcquireWindow(w[1], w[2], w[3], w[4], w[5], dt)

NextCadence == CadenceWindowArrives \/ ProcessReadyWindow

SpecCadence == Init /\ [][NextCadence]_vars


\* Tremor-scenario environment: windows whose spectrum says TREMOR with a
\* raw intensity of 0.0010, 0.0038, 0.0040, 1.67 and 3 (the cap), a
\* dyskinesia window and a window without a peak, at the nominal period.
ScenarioWindows ==
    { <<0, 100000, 7508, 0, 1000>>,
      <<0, 100000, 7529, 0, 1000>>,
      <<0, 100000, 7530, 0, 1000>>,
      <<0, 100000, 20000, 0, 1000>>,
      <<0, 100000, 40000, 0, 0>>,
      <<0, 100000, 0, 20000, 1000>>,
      <<0, 100000, 0, 0, 1000>> }

ScenarioWindowArrives ==
    \E w \in ScenarioWindows, dt \in DetPeriods :
        /\ now + dt <= MaxScenarioTime
        /\ AcquireWindow(w[1], w[2], w[3], w[4], w[5], dt)

NextScenario == ScenarioWindowArrives \/ ProcessReadyWindow

SpecScenario == Init /\ [][NextScenario]_vars


\* Stillness environment: near-static windows (std_dev 0.004 and just
\* below 0.005) whose spectrum would say TREMOR, the same spectrum at
\* std_dev 0.005, walking windows with and without a tremor in the
\* spectrum, a tremor window and a dyskinesia window.
StillWindows ==
    { <<0, 16, 40000, 0, 0>>,
      <<0, 24, 40000, 0, 0>>,
      <<0, 25, 40000, 0, 0>>,
      <<4, 100000, 0, 0, 0>>,
      <<4, 100000, 40000, 0, 0>>,
      <<0, 100000, 40000, 0, 0>>,
      <<0, 100000, 0, 50000, 2500>> }

StillWindowArrives ==
    \E w \in StillWindows, dt \in DetPeriods :
        /\ now + dt <= MaxStillTime
        /\ AcquireWindow(w[1], w[2], w[3], w[4], w[5], dt)

NextStill == StillWindowArrives \/ ProcessReadyWindow

SpecStill == Init /\ [][NextStill]_vars


\* Main-loop environment: the data-ready signal fires at any point between
\* two steps of the loop, bursts fail or succeed, a sample is at rest, the
\* peak of a step or inside the hysteresis band (the device is upright, so
\* the magnitude is the vertical component), the status register reports
\* any combination of ready bits,
\* no client is in range, and an iteration takes 10 or 90 ms (sums reach
\* exactly 100 ms and exceed it).
LoopSamples ==
    { <<"ok", 10000, 0, 10000>>,
      <<"ok", 12000, 0, 12000>>,
      <<"ok", 10400, 0, 10400>>,
      <<"accel_failed", 0, 0, 0>>,
      <<"gyro_failed", 0, 0, 0>> }
LoopWindowStatistics == <<100000, 0, 0, 0>>
LoopDelays == {10, 90}

SignalArrives ==
    /\ interrupt_count < MaxSignals
    /\ pending_samples < MaxPending
    /\ data_ready_isr

LoopDrainRead ==
    \E s \in LoopSamples :
        DrainRead(s[1], s[2], s[3], s[4], LoopWindowStatistics)

LoopPoll ==
    \E register_ok \in BOOLEAN, status_reg \in 0..7, s \in LoopSamples :
        Poll(register_ok, status_reg, s[1], s[2], s[3], s[4],
             LoopWindowStatistics)

LoopBleSection == BleSection("none")

LoopSleep ==
    \E dt \in LoopDelays :
        /\ now + dt <= MaxLoopTime
        /\ Sleep(dt)

MainLoop ==
    \/ LoopTop
    \/ DrainTest
    \/ DrainBody
    \/ LoopDrainRead
    \/ DrainDec
    \/ DrainCheck
    \/ DrainClear
    \/ LoopPoll
    \/ CheckWindow
    \/ LoopBleSection
    \/ LoopSleep

NextLoop == SignalArrives \/ MainLoop

SpecLoop == Init /\ [][NextLoop]_vars

\* The main loop never blocks: once the clock has reached the end of the
\* run, the iterations go on with the clock held there.
LoopSleepAtBound ==
    /\ \A dt \in LoopDelays : now + dt > MaxLoopTime
    /\ Sleep(0)

NextLoopFair == NextLoop \/ LoopSleepAtBound

\* The main loop keeps running; nothing is assumed about further
\* data-ready signals.
SpecLoopFair ==
    /\ Init /\ [][NextLoopFair]_vars
    /\ WF_vars(MainLoop \/ LoopSleepAtBound)


\* Long-drain environment: signals keep arriving while the loop drains, so
\* that one drain reads more than a window of samples; the device is at
\* rest except that the first sample of a window can be the peak of a
\* step, at most MaxReadFailures reads fail, and an iteration sleeps 1 ms.
DrainSamples ==
    { <<"ok", 10000, 0, 10000>>,
      <<"ok", 12000, 0, 12000>>,
      <<"gyro_failed", 0, 0, 0>> }

DrainSignalArrives ==
    /\ interrupt_count < MaxDrainSignals
    /\ pending_samples < MaxPending
    /\ data_ready_isr

\* Without polls, the reads made are interrupt_count - pending_samples and
\* the failed ones those that did not count a sample.
LongDrainRead ==
    \E s \in DrainSamples :
        /\ s[1] # "ok"
           => interrupt_count - pending_samples - sample_count
                 < MaxReadFailures
        /\ s[4] > BASELINE_START => buffer_index = 0
        /\ DrainRead(s[1], s[2], s[3], s[4], LoopWindowStatistics)

DrainSleep ==
    /\ now + 1 <= MaxDrainTime
    /\ Sleep(1)

NextDrain ==
    \/ DrainSignalArrives
    \/ LoopTop
    \/ DrainTest
    \/ DrainBody
    \/ LongDrainRead
    \/ DrainDec
    \/ DrainCheck
    \/ DrainClear
    \/ CheckWindow
    \/ LoopBleSection
    \/ DrainSleep

SpecDrain == Init /\ [][NextDrain]_vars

\* Notifier environment: tremor, dyskinesia, walking and freeze windows at
\* the nominal period; after any step of the loop an iteration dispatches
\* an event (a client connects, fails to connect or disconnects, or
\* nothing happens) and runs the status section.
BleWindows ==
    { <<0, 100000, 40000, 0, 0>>,
      <<0, 100000, 0, 20000, 1000>>,
      <<4, 100000, 0, 0, 0>>,
      <<0, 10000, 0, 0, 0>> }

BleWindowArrives ==
    \E w \in BleWindows, dt \in DetPeriods :
        /\ now + dt <= MaxBleTime
        /\ AcquireWindow(w[1], w[2], w[3], w[4], w[5], dt)

ReportStatus ==
    /\ \E ev \in GapEvents : StatusSection(ev, now)
    /\ UNCHANGED <<now, window_ready, steps_in_window, winVars, detVars,
                   fogVars, isrVars, sampleVars, loopVars>>

NextBle == BleWindowArrives \/ ProcessReadyWindow \/ ReportStatus

SpecBle == Init /\ [][NextBle]_vars

\* Band-decision environment: one window of ample movement per run, its
\* band peaks and its noise mean drawn from a grid around the thresholds
\* (3 and 4 times the noise floor) and the dominance ratio.
BandPeaks == {0, 7500, 7501, 10000, 10001, 11001, 11002, 20000}
BandNoise == {0, 2500, 5000}

BandWindowArrives ==
    \E tp \in BandPeaks, dp \in BandPeaks, nm \in BandNoise,
       dt \in DetPeriods :
        /\ now + dt <= MaxBandTime
        /\ AcquireWindow(0, 100000, tp, dp, nm, dt)

NextBand == BandWindowArrives \/ ProcessReadyWindow

SpecBand == Init /\ [][NextBand]_vars

\* Sustained-tremor environment: TREMOR windows of raw intensity 1.0 at the
\* nominal period for more than 255 windows; in the last three windows of
\* the run the tremor can weaken to a raw intensity of 0.4.
RunStrongWindow == <<0, 100000, 15000, 0, 0>>
RunWeakWindow == <<0, 100000, 10500, 0, 0>>
RunWeakenTime == MaxRunTime - 9000

RunWindowArrives ==
    \E w \in {RunStrongWindow, RunWeakWindow}, dt \in DetPeriods :
        /\ now + dt <= MaxRunTime
        /\ w = RunWeakWindow => now + dt > RunWeakenTime
        /\ AcquireWindow(w[1], w[2], w[3], w[4], w[5], dt)

NextRun == RunWindowArrives \/ ProcessReadyWindow

SpecRun == Init /\ [][NextRun]_vars

\* ------------------------------------------------------------------------
\* Properties
\* ------------------------------------------------------------------------
\* A step of the behaviour that is one call of process_window.
WindowProcessed == window_ready /\ ~window_ready'

\* C1: after any sequence of processed windows the published tremor
\* intensity and the published dyskinesia intensity are never both nonzero.
C1_MutuallyExclusive == ~(tremor_intensity > 0 /\ dysk_intensity > 0)

\* A dyskinesia has just been confirmed while the tremor accumulator still
\* holds a value that would publish as nonzero.
C1_Witness ==
    /\ ~window_ready
    /\ dysk_consecutive >= 2
    /\ dysk_intensity > 0
    /\ tremor_ema_intensity * 500 >= FX
    /\ tremor_intensity = 0

\* C2: confirmation latency.  From a streak of zero, the first window with
\* raw label L (TREMOR or DYSK) leaves both published intensities as they
\* were; the second consecutive one publishes L's smoothed intensity
\* (scaled by 500, at most 1000) and forces the other output to 0.
C2_ConfirmationLatency ==
    [][WindowProcessed =>
        /\ (raw_detection' = "TREMOR" /\ tremor_consecutive = 0) =>
              /\ tremor_consecutive' = 1
              /\ UNCHANGED <<tremor_intensity, dysk_intensity>>
        /\ (raw_detection' = "TREMOR" /\ tremor_consecutive = 1) =>
              /\ tremor_consecutive' = 2
              /\ tremor_intensity' = ScaleIntensity(tremor_ema_intensity')
              /\ dysk_intensity' = 0
        /\ (raw_detection' = "DYSK" /\ dysk_consecutive = 0) =>
              /\ dysk_consecutive' = 1
              /\ UNCHANGED <<tremor_intensity, dysk_intensity>>
        /\ (raw_detection' = "DYSK" /\ dysk_consecutive = 1) =>
              /\ dysk_consecutive' = 2
              /\ dysk_intensity' = ScaleIntensity(dysk_ema_intensity')
              /\ tremor_intensity' = 0
    ]_vars

\* The second of two consecutive TREMOR windows has been processed and has
\* published a nonzero tremor intensity.
C2_Witness ==
    /\ ~window_ready
    /\ raw_detection = "TREMOR"
    /\ tremor_consecutive = 2
    /\ tremor_intensity > 0
    /\ dysk_intensity = 0

\* C3: clear latency.  A near-static window (std_dev < 0.005) has raw label
\* NONE; the first and the second window of a NONE streak leave both
\* published intensities as they were, the third sets both to 0 and resets
\* both smoothing accumulators to 0.
C3_ClearLatency ==
    [][WindowProcessed =>
        /\ win_variance < 25 => raw_detection' = "NONE"
        /\ (raw_detection' = "NONE" /\ none_consecutive \in {0, 1}) =>
              /\ none_consecutive' = none_consecutive + 1
              /\ UNCHANGED <<tremor_intensity, dysk_intensity>>
        /\ (raw_detection' = "NONE" /\ none_consecutive = 2) =>
              /\ tremor_intensity' = 0
              /\ dysk_intensity' = 0
              /\ tremor_ema_intensity' = 0
              /\ dysk_ema_intensity' = 0
    ]_vars

\* A tremor is still published after two NONE windows, and the third
\* window of the streak, a near-static one, is ready to be processed.
C3_Witness ==
    /\ window_ready
    /\ win_variance < 25
    /\ raw_detection = "NONE"
    /\ none_consecutive = 2
    /\ tremor_intensity > 0

\* C4: no flicker.  A processed window after which the tremor streak is
\* below 2, the dyskinesia streak is below 2 and the none streak is below 3
\* leaves both published intensities exactly as they were.
C4_NoFlicker ==
    [][(/\ WindowProcessed
        /\ tremor_consecutive' < 2
        /\ dysk_consecutive' < 2
        /\ none_consecutive' < 3)
       => UNCHANGED <<tremor_intensity, dysk_intensity>>]_vars

\* A single DYSK window has been processed while a tremor stays published.
C4_Witness ==
    /\ ~window_ready
    /\ raw_detection = "DYSK"
    /\ dysk_consecutive = 1
    /\ tremor_intensity > 0

\* C5: both published intensities are always within 0..1000.
C5_PublishedRange ==
    /\ tremor_intensity \in 0..1000
    /\ dysk_intensity \in 0..1000

\* The smoothed tremor intensity exceeds 2.0, so that its scaled value
\* exceeds 1000, and the published value is 1000.
C5_Witness ==
    /\ ~window_ready
    /\ tremor_consecutive >= 2
    /\ tremor_ema_intensity > 2 * FX
    /\ tremor_intensity = 1000

\* C6: after every call of process_fog_detection, FOG status is 1 if and
\* only if the automaton state is FREEZE_CONFIRMED, and 0 otherwise.
C6_StatusIffConfirmed ==
    /\ fog_status \in {0, 1}
    /\ fog_status = 1 <=> fog_state = "FOG_FREEZE_CONFIRMED"

\* A window has been evaluated into FREEZE_CONFIRMED with the alarm raised.
C6_Witness ==
    /\ ~window_ready
    /\ fog_state = "FOG_FREEZE_CONFIRMED"
    /\ fog_status = 1

\* C7: freeze cannot occur without prior walking.  FREEZE_CONFIRMED is
\* entered only from POTENTIAL_FREEZE, POTENTIAL_FREEZE only from WALKING,
\* and FOG status becomes 1 only in an evaluation that started in
\* POTENTIAL_FREEZE; so every alarm is preceded by WALKING with no
\* NOT_WALKING in between.
C7_FreezeOnlyAfterWalking ==
    [][/\ (fog_state' = "FOG_FREEZE_CONFIRMED"
              /\ fog_state # "FOG_FREEZE_CONFIRMED")
          => fog_state = "FOG_POTENTIAL_FREEZE"
       /\ (fog_state' = "FOG_POTENTIAL_FREEZE"
              /\ fog_state # "FOG_POTENTIAL_FREEZE")
          => fog_state = "FOG_WALKING"
       /\ (fog_status' = 1 /\ fog_status = 0)
          => fog_state = "FOG_POTENTIAL_FREEZE"
    ]_vars

\* An alarm raised after a walking episode of at least 2000 ms.
C7_Witness ==
    /\ fog_status = 1
    /\ walking_start_time > 0
    /\ freeze_start_time >= walking_start_time + 2000

\* C8: in a window in which the published tremor or dyskinesia intensity is
\* nonzero when the freeze detector runs, the window is not classified as
\* walking: the automaton neither enters nor remains in WALKING.
C8_NoWalkingWhileSymptomPublished ==
    [][(/\ WindowProcessed
        /\ (tremor_intensity' > 0 \/ dysk_intensity' > 0))
       => fog_state' # "FOG_WALKING"]_vars

\* C9: from WALKING, a non-walking window with freeze indicators moves to
\* POTENTIAL_FREEZE, recording freeze-start = current time, exactly when
\* current_time - walking-start >= 2000 ms; with a shorter walking duration,
\* or without freeze indicators, the automaton returns to NOT_WALKING.
C9_WalkingExit ==
    [][(/\ WindowProcessed
        /\ fog_state = "FOG_WALKING"
        /\ ~currently_walking(steps_in_window, win_variance))
       =>
        LET freeze == freeze_indicators(steps_in_window, win_variance,
                                        walking_start_time)
            long_enough == now - walking_start_time >= 2000
        IN  /\ fog_state' = "FOG_POTENTIAL_FREEZE" =>
                  freeze /\ long_enough /\ freeze_start_time' = now
            /\ (freeze /\ long_enough) => fog_state' = "FOG_POTENTIAL_FREEZE"
            /\ (freeze /\ ~long_enough) => fog_state' = "FOG_NOT_WALKING"
            /\ ~freeze => fog_state' = "FOG_NOT_WALKING"
    ]_vars

\* POTENTIAL_FREEZE has just been entered, at least 2000 ms after the
\* walking start.
C9_Witness ==
    /\ ~window_ready
    /\ fog_state = "FOG_POTENTIAL_FREEZE"
    /\ consecutive_freeze_windows = 1
    /\ freeze_start_time = now
    /\ now - walking_start_time >= 2000

\* C10: POTENTIAL_FREEZE becomes FREEZE_CONFIRMED only on a window that is
\* not walking, shows freeze indicators and is evaluated at least 1500 ms
\* after freeze-start; no evaluation earlier than 1500 ms after freeze-start
\* leaves FOG status at 1.
C10_ConfirmOnlyAfterDelay ==
    [][WindowProcessed =>
        /\ (fog_state = "FOG_POTENTIAL_FREEZE"
              /\ fog_state' = "FOG_FREEZE_CONFIRMED") =>
              /\ ~currently_walking(steps_in_window, win_variance)
              /\ freeze_indicators(steps_in_window, win_variance,
                                   walking_start_time)
              /\ now - freeze_start_time >= 1500
        /\ fog_status' = 1 => now - freeze_start_time >= 1500
    ]_vars

\* A freeze confirmed after POTENTIAL_FREEZE was evaluated at least once
\* with freeze indicators before the 1500 ms had elapsed.
C10_Witness ==
    /\ ~window_ready
    /\ fog_state = "FOG_FREEZE_CONFIRMED"
    /\ consecutive_freeze_windows >= 3
    /\ now - freeze_start_time >= 1500
    /\ freeze_confirmed_start = 0

\* C11: FREEZE_CONFIRMED records its freeze-confirmed timestamp at the
\* evaluation that enters the state, and a non-walking evaluation in
\* FREEZE_CONFIRMED resets to NOT_WALKING as soon as 15000 ms have passed
\* since that entry.  With windows 3000 ms apart the state is entered
\* 3000 ms after freeze-start, so the reset is due at freeze-start + 18000.
C11_TimeoutFromEntry ==
    [][WindowProcessed =>
        /\ (fog_state # "FOG_FREEZE_CONFIRMED"
              /\ fog_state' = "FOG_FREEZE_CONFIRMED")
           => freeze_confirmed_start' = now
        /\ (/\ fog_state = "FOG_FREEZE_CONFIRMED"
            /\ ~currently_walking(steps_in_window, win_variance)
            /\ now - (freeze_start_time + 3000) >= 15000)
           => fog_state' = "FOG_NOT_WALKING"
    ]_vars

\* C12: the FOG alarm cannot persist forever.  While windows keep being
\* evaluated with advancing timestamps (here: 3000 ms apart, for at least
\* another 18000 ms), FREEZE_CONFIRMED leads to WALKING or NOT_WALKING
\* with FOG status back at 0.
C12_AlarmEnds ==
    (fog_state = "FOG_FREEZE_CONFIRMED" /\ now + 18000 <= MaxLongTime)
        ~> (/\ fog_state \in {"FOG_WALKING", "FOG_NOT_WALKING"}
            /\ fog_status = 0)

\* A freeze that has stayed confirmed for 15000 ms since its timestamp was
\* taken, with one more freeze window ready: the timeout evaluation.
C12_Witness ==
    /\ window_ready
    /\ fog_state = "FOG_FREEZE_CONFIRMED"
    /\ fog_status = 1
    /\ freeze_confirmed_start > 0
    /\ now - freeze_confirmed_start >= 15000
    /\ steps_in_window = 0

\* C13: recovery.  A walking window evaluated in POTENTIAL_FREEZE or in
\* FREEZE_CONFIRMED returns the automaton to WALKING with FOG status 0 and
\* the freeze streak counter 0; leaving FREEZE_CONFIRMED this way clears
\* the freeze-confirmed timestamp to 0.
C13_Recovery ==
    [][(/\ WindowProcessed
        /\ fog_state \in {"FOG_POTENTIAL_FREEZE", "FOG_FREEZE_CONFIRMED"}
        /\ steps_in_window \in 2..7
        /\ win_variance >= 50000
        /\ win_variance <= 300000)
       =>
        /\ fog_state' = "FOG_WALKING"
        /\ fog_status' = 0
        /\ consecutive_freeze_windows' = 0
        /\ fog_state = "FOG_FREEZE_CONFIRMED" => freeze_confirmed_start' = 0
    ]_vars

\* Back in WALKING with a freeze-start later than the walking start: the
\* automaton went through a freeze state and resumed walking.
C13_Witness ==
    /\ ~window_ready
    /\ fog_state = "FOG_WALKING"
    /\ fog_status = 0
    /\ consecutive_freeze_windows = 0
    /\ freeze_confirmed_start = 0
    /\ freeze_start_time >= walking_start_time + 2000
    /\ now >= freeze_start_time + 2000

\* C14: end-to-end scenario C with windows 3000 ms apart.  The first window
\* after start-up, if it qualifies as walking, puts the automaton in
\* WALKING; a freeze window (no steps, variance < 0.015) 3000 ms after the
\* walking start takes it to POTENTIAL_FREEZE with FOG status still 0; a
\* freeze window 3000 ms after that takes it to FREEZE_CONFIRMED with FOG
\* status 1; a following walking window returns it to WALKING.
C14_ScenarioC ==
    [][WindowProcessed =>
        LET walking_window == /\ steps_in_window \in 2..7
                              /\ win_variance >= 50000
                              /\ win_variance <= 300000
            freeze_window == steps_in_window = 0 /\ win_variance < 15000
        IN  /\ (now = BootTime + 3000 /\ walking_window)
               => (fog_state' = "FOG_WALKING" /\ fog_status' = 0)
            /\ (/\ fog_state = "FOG_WALKING"
                /\ walking_start_time = now - 3000
                /\ freeze_window)
               => (fog_state' = "FOG_POTENTIAL_FREEZE" /\ fog_status' = 0)
            /\ (/\ fog_state = "FOG_POTENTIAL_FREEZE"
                /\ freeze_start_time = now - 3000
                /\ freeze_window)
               => (fog_state' = "FOG_FREEZE_CONFIRMED" /\ fog_status' = 1)
            /\ (fog_state = "FOG_FREEZE_CONFIRMED" /\ walking_window)
               => (fog_state' = "FOG_WALKING" /\ fog_status' = 0)
    ]_vars

\* The end of the scenario: walking since the first window, frozen at the
\* second, confirmed at the third, walking again at the fourth.
C14_Witness ==
    /\ ~window_ready
    /\ fog_state = "FOG_WALKING"
    /\ fog_status = 0
    /\ walking_start_time = BootTime + 3000
    /\ freeze_start_time = walking_start_time + 3000
    /\ now = walking_start_time + 9000
    /\ consecutive_freeze_windows = 0

\* C15: in POTENTIAL_FREEZE a window that is neither walking nor
\* freeze-indicating resets the automaton to NOT_WALKING with the walking
\* start and both streak counters cleared; while the walking start is 0 no
\* evaluation ends in a freeze state, and the walking start becomes non-zero
\* again only by a NOT_WALKING to WALKING transition.
C15_AmbiguousStillnessReset ==
    [][WindowProcessed =>
        LET walking_window == /\ steps_in_window \in 2..7
                              /\ win_variance >= 50000
                              /\ win_variance <= 300000
            freeze_window == /\ 20 * steps_in_window < 10
                             /\ win_variance < 15000
                             /\ walking_start_time > 0
        IN  /\ (/\ fog_state = "FOG_POTENTIAL_FREEZE"
                /\ ~walking_window
                /\ ~freeze_window)
               => /\ fog_state' = "FOG_NOT_WALKING"
                  /\ walking_start_time' = 0
                  /\ consecutive_walking_windows' = 0
                  /\ consecutive_freeze_windows' = 0
            /\ walking_start_time = 0
               => fog_state' \notin {"FOG_POTENTIAL_FREEZE",
                                     "FOG_FREEZE_CONFIRMED"}
            /\ (walking_start_time = 0 /\ walking_start_time' # 0)
               => (fog_state = "FOG_NOT_WALKING" /\ fog_state' = "FOG_WALKING")
    ]_vars

\* A potential freeze begun 500 ms earlier has just been abandoned by an
\* ambiguous window.
C15_Witness ==
    /\ ~window_ready
    /\ fog_state = "FOG_NOT_WALKING"
    /\ walking_start_time = 0
    /\ freeze_start_time > 0
    /\ now = freeze_start_time + 500
    /\ consecutive_walking_windows = 0
    /\ consecutive_freeze_windows = 0

\* C16: after the FREEZE_CONFIRMED timeout reset to NOT_WALKING (the only
\* way from FREEZE_CONFIRMED to NOT_WALKING), the walking-start, the
\* freeze-start and the freeze-confirmed timestamps are all 0.
C16_TimeoutClearsTimestamps ==
    [][(/\ WindowProcessed
        /\ fog_state = "FOG_FREEZE_CONFIRMED"
        /\ fog_state' = "FOG_NOT_WALKING")
       => /\ walking_start_time' = 0
          /\ freeze_start_time' = 0
          /\ freeze_confirmed_start' = 0
    ]_vars

\* C17: self-healing.  After every evaluation, from a reachable or from an
\* injected detector state, a freeze state comes with a non-zero walking
\* start; hence the defensive reset can only be taken by the first
\* evaluation of an injected state, never from the program's initial state.
C17_SelfHealing ==
    [][WindowProcessed =>
        /\ fog_state' \in {"FOG_POTENTIAL_FREEZE", "FOG_FREEZE_CONFIRMED"}
           => walking_start_time' # 0
        /\ (/\ fog_state \in {"FOG_POTENTIAL_FREEZE", "FOG_FREEZE_CONFIRMED"}
            /\ walking_start_time = 0)
           => /\ now = BootTime + 3000
              /\ fog_state' \in {"FOG_NOT_WALKING", "FOG_WALKING"}
    ]_vars

\* The first evaluation of an injected confirmed freeze with a walking
\* start: the state stays a freeze state and the confirmation is stamped.
C17_Witness ==
    /\ ~window_ready
    /\ now = BootTime + 3000
    /\ fog_state = "FOG_FREEZE_CONFIRMED"
    /\ walking_start_time = BootTime
    /\ freeze_confirmed_start = now

\* C18: the cadence of a window is 20 times its step count (6 steps give
\* 120 steps/min), and a window is taken as walking (the automaton enters
\* WALKING from NOT_WALKING or from a freeze state) only if that cadence is
\* in [40, 140], i.e. 2..7 steps, and the variance is in [0.05, 0.30].
C18_CadenceAndWalking ==
    [][WindowProcessed =>
        /\ previous_cadence' = 20 * steps_in_window
        /\ steps_in_window = 6 => previous_cadence' = 120
        /\ (fog_state # "FOG_WALKING" /\ fog_state' = "FOG_WALKING")
           => /\ previous_cadence' >= 40
              /\ previous_cadence' <= 140
              /\ steps_in_window \in 2..7
              /\ win_variance >= 50000
              /\ win_variance <= 300000
    ]_vars

\* Six steps at the upper variance limit have just started a walk.
C18_Witness ==
    /\ ~window_ready
    /\ fog_state = "FOG_WALKING"
    /\ walking_start_time = now
    /\ previous_cadence = 120
    /\ win_variance = 300000

C20_StillWindowIsNone ==
    [][(WindowProcessed /\ win_variance < 25)
       => /\ raw_detection' = "NONE"
          /\ raw_intensity' = 0
          /\ fft_initialized' = fft_initialized
    ]_vars

\* A near-static window with a tremor spectrum has just been processed
\* during a confirmed freeze, with the transform never initialised.
C20_Witness ==
    /\ ~window_ready
    /\ win_variance < 25
    /\ win_tremor_peak = 40000
    /\ raw_detection = "NONE"
    /\ raw_intensity = 0
    /\ ~fft_initialized
    /\ fog_state = "FOG_FREEZE_CONFIRMED"
    /\ none_consecutive >= 1

\* C23: no lost wake-up.  At the start of every main-loop iteration a
\* pending sample comes with the new-data flag set, whatever the point of
\* the drain at which its signal arrived.
C23_NoStrandedSignal ==
    (pc = "top" /\ pending_samples > 0) => new_data_available

\* C24: whenever a sample is pending, the main loop eventually drains the
\* count back to 0, even if no further signal arrives.
C24_PendingDrained ==
    (pending_samples > 0) ~> (pending_samples = 0)

\* C25: under every interleaving of the signal handler with the main loop
\* the pending count moves with the signals received and the samples
\* drained: it goes up by one exactly with each signal, down by one exactly
\* with each decrement step of the drain (which finds it above 0), and is
\* never negative.
C25_PendingAccounting ==
    [][LET drained == pc = "drain_dec" /\ pc' = "drain_check"
       IN  /\ drained => /\ pending_samples > 0
                         /\ pending_samples' = pending_samples - 1
                         /\ interrupt_count' = interrupt_count
           /\ ~drained => pending_samples' - pending_samples
                          = interrupt_count' - interrupt_count
           /\ pending_samples' >= 0
    ]_vars

\* A second signal arrived while the first was being drained: one of the
\* two has been drained, the other is pending.
C25_Witness ==
    /\ pc = "drain_check"
    /\ interrupt_count = 2
    /\ pending_samples = 1
    /\ new_data_available

\* C26: the polling fallback never reads a sample while a signalled sample
\* is still pending.
C26_NoPollWhilePending ==
    [][(pc = "poll" /\ sample_count' # sample_count)
       => pending_samples = 0
    ]_vars

\* C27: the polling branch is entered only from the top of an iteration in
\* which the new-data flag is clear, more than 100 ms have passed since
\* the last drain and at least 19 ms since the previous poll; it reads a
\* sample only if the status register was read with both ready bits set,
\* and then exactly one; samples are read nowhere but in the drain and the
\* poll, and an iteration goes through one of them at most.
C27_PollGuard ==
    [][LET drain == {"drain_test", "drain_body", "drain_read", "drain_dec",
                     "drain_check", "drain_clear"}
       IN  /\ (pc # "poll" /\ pc' = "poll")
              => /\ pc = "top"
                 /\ ~new_data_available
                 /\ now - last_interrupt_time > 100
                 /\ now - last_poll_time >= 19
           /\ (pc = "poll" /\ pc' # "poll")
              => /\ pc' = "window"
                 /\ sample_count' \in {sample_count, sample_count + 1}
                 /\ sample_count' # sample_count
                    => (poll_status' % 2 = 1 /\ (poll_status' \div 2) % 2 = 1)
           /\ sample_count' # sample_count => pc \in {"poll", "drain_read"}
           /\ (pc \notin drain /\ pc' \in drain)
              => (pc = "top" /\ new_data_available)
           /\ (pc \in drain /\ pc' \notin drain) => pc' = "window"
           /\ pc = "window" => pc' \in {"window", "ble"}
    ]_vars

\* The fallback has just read one sample, 110 ms after the start of the
\* loop and without any signal since.
C27_Witness ==
    /\ pc = "window"
    /\ last_poll_time = loop_now
    /\ loop_now - last_interrupt_time > 100
    /\ poll_status = 3
    /\ sample_count = 1
    /\ last_sample_time_ms = loop_now
    /\ interrupt_count = 0

\* C28: the data-ready handler sets the new-data flag and adds one to the
\* pending count and to the interrupt counter, and changes nothing else:
\* the sample buffers and their index, the window-ready flag, the step
\* state, the baseline, the detection state, the FOG state and the
\* published outputs are as the interrupted main loop left them.
C28_HandlerIsMinimal ==
    [][interrupt_count' # interrupt_count
       => /\ new_data_available'
          /\ pending_samples' = pending_samples + 1
          /\ interrupt_count' = interrupt_count + 1
          /\ UNCHANGED <<accel_magnitude_buffer, gyro_magnitude_buffer,
                         buffer_index, window_ready, steps_in_window,
                         above_step_threshold, last_step_time_ms,
                         accel_baseline_ema, sample_count,
                         last_sample_time_ms, winVars, detVars, fogVars,
                         pc, loop_now>>
    ]_vars

\* The handler has run twice while the main loop was about to read the
\* second sample of a drain.
C28_Witness ==
    /\ pc = "drain_read"
    /\ interrupt_count = 3
    /\ pending_samples = 2
    /\ sample_count = 1
    /\ buffer_index = 1
    /\ new_data_available

\* C30: a call of read_sensor_data whose accelerometer or gyroscope
\* transfer fails changes nothing: the buffers, the index, the
\* window-ready flag, the sample count, the step counter, the step-edge
\* flag, the last-step time and the baseline are as before; the next call
\* that succeeds stores its sample in the slot the failed call left.
C30_FailedReadDropsSample ==
    [][(pc \in {"drain_read", "poll"} /\ pc' # pc)
       => /\ read_status' \in {"accel_failed", "gyro_failed"}
             => UNCHANGED <<accel_magnitude_buffer, gyro_magnitude_buffer,
                            buffer_index, window_ready, sample_count,
                            last_sample_time_ms, steps_in_window,
                            above_step_threshold, last_step_time_ms,
                            accel_baseline_ema>>
          /\ (read_status \in {"accel_failed", "gyro_failed"}
                /\ sample_count' # sample_count)
             => /\ read_status' = "ok"
                /\ buffer_index \in DOMAIN accel_magnitude_buffer'
                /\ buffer_index \in DOMAIN gyro_magnitude_buffer'
                /\ buffer_index' = buffer_index + 1
                /\ sample_count' = sample_count + 1
    ]_vars

\* A gyroscope transfer has just failed in a drain after a step peak was
\* stored: one sample and one step are counted, the edge flag is set and
\* the baseline has moved.
C30_Witness ==
    /\ pc = "drain_dec"
    /\ read_status = "gyro_failed"
    /\ sample_count = 1
    /\ buffer_index = 1
    /\ steps_in_window = 1
    /\ above_step_threshold
    /\ accel_baseline_ema = 10002
    /\ last_step_time_ms = BootTime

\* C22: a window is completed only when the previous completed window has
\* been processed: the read that stores the last sample of a window finds
\* window_ready clear, so process_window runs between any two completions.
C22_ProcessedBetweenCompletions ==
    [][(sample_count' # sample_count /\ buffer_index = WINDOW_SIZE - 1)
       => ~window_ready]_vars

\* C29: after every call of read_sensor_data the buffer index is in
\* 0 .. WINDOW_SIZE - 1; a successful call stores one pair of magnitudes at
\* the index and advances it by one; window_ready is set by the call that
\* stores sample number WINDOW_SIZE of a window, which puts the index back
\* to 0, and by no other step.
C29_IndexAndCompletion ==
    [][LET read == pc = "drain_read" /\ pc' = "drain_dec"
           stored == read /\ read_status' = "ok"
           last == buffer_index = WINDOW_SIZE - 1
       IN  /\ read => buffer_index' \in 0..(WINDOW_SIZE - 1)
           /\ stored
              => /\ DOMAIN accel_magnitude_buffer'
                       = DOMAIN accel_magnitude_buffer \cup {buffer_index}
                 /\ DOMAIN gyro_magnitude_buffer'
                       = DOMAIN gyro_magnitude_buffer \cup {buffer_index}
                 /\ \A i \in DOMAIN accel_magnitude_buffer \ {buffer_index} :
                       /\ accel_magnitude_buffer'[i] = accel_magnitude_buffer[i]
                       /\ gyro_magnitude_buffer'[i] = gyro_magnitude_buffer[i]
                 /\ buffer_index' = IF last THEN 0 ELSE buffer_index + 1
                 /\ last => window_ready'
                 /\ ~last => window_ready' = window_ready
           /\ (~window_ready /\ window_ready') => (stored /\ last)
           /\ buffer_index' # buffer_index => stored
    ]_vars

\* The 156th sample of the first window has just been stored, after one
\* read that failed.
C29_Witness ==
    /\ pc = "drain_dec"
    /\ read_status = "ok"
    /\ sample_count = WINDOW_SIZE
    /\ interrupt_count - pending_samples = WINDOW_SIZE
    /\ buffer_index = 0
    /\ window_ready
    /\ DOMAIN accel_magnitude_buffer = 0..(WINDOW_SIZE - 1)

\* C21: the status section writes a characteristic only while a client is
\* connected and only if the published value differs from the value last
\* written for it; while disconnected it writes nothing and keeps the
\* last-written values; while connected it leaves each last-written value
\* equal to the published output.
C21_NotifyOnChangeWhileConnected ==
    [][(now' = now /\ window_ready' = window_ready)
       => /\ ble_written' \subseteq {"tremor", "dysk", "fog"}
          /\ "tremor" \in ble_written'
             => (ble_connected' /\ tremor_intensity # previous_tremor)
          /\ "dysk" \in ble_written'
             => (ble_connected' /\ dysk_intensity # previous_dysk)
          /\ "fog" \in ble_written'
             => (ble_connected' /\ fog_status # previous_fog)
          /\ ~ble_connected'
             => /\ ble_written' = {}
                /\ UNCHANGED <<previous_tremor, previous_dysk, previous_fog>>
          /\ ble_connected'
             => /\ previous_tremor' = tremor_intensity
                /\ previous_dysk' = dysk_intensity
                /\ previous_fog' = fog_status
                /\ UNCHANGED <<tremor_intensity, dysk_intensity, fog_status>>
    ]_vars

\* A tremor value was written earlier; now, with a client connected, the
\* status section has written the cleared tremor value and a new
\* dyskinesia value in one call.
C21_Witness ==
    /\ ble_connected
    /\ ble_written = {"tremor", "dysk"}
    /\ tremor_intensity = 0
    /\ previous_tremor = 0
    /\ dysk_intensity > 0
    /\ previous_dysk = dysk_intensity
    /\ previous_fog = fog_status

\* C40: at the start of every main-loop iteration the new-data flag is set
\* only if at least one sample is pending.
C40_FlagImpliesPending ==
    (pc = "top" /\ new_data_available) => pending_samples > 0

\* An iteration starts with the flag set and one sample pending, after a
\* drain that emptied the count and a signal that arrived later.
C40_Witness ==
    /\ pc = "top"
    /\ new_data_available
    /\ pending_samples = 1
    /\ interrupt_count = 3
    /\ sample_count = 2

\* C32: a stored sample counts a step only if its deviation from the
\* baseline exceeds the threshold, the edge flag was clear and more than
\* 100 ms have passed since the last counted step, whose time it then
\* becomes; the edge flag is set by every sample above the threshold that
\* finds it clear, counted or not, and is cleared only by a sample whose
\* deviation is below half the threshold.
C32_StepCounting ==
    [][sample_count' # sample_count
       => LET z == accel_magnitude_buffer'[buffer_index]
              deviation == IF z >= accel_baseline_ema'
                           THEN z - accel_baseline_ema'
                           ELSE accel_baseline_ema' - z
          IN  /\ steps_in_window' # steps_in_window
                 => /\ steps_in_window' = steps_in_window + 1
                    /\ deviation > 500
                    /\ ~above_step_threshold
                    /\ now - last_step_time_ms > 100
                    /\ last_step_time_ms' = now
              /\ last_step_time_ms' # last_step_time_ms
                 => steps_in_window' = steps_in_window + 1
              /\ (deviation > 500 /\ ~above_step_threshold)
                 => above_step_threshold'
              /\ (~above_step_threshold /\ above_step_threshold')
                 => deviation > 500
              /\ (above_step_threshold /\ ~above_step_threshold')
                 => 2 * deviation < 500
    ]_vars

\* A second peak, stored exactly 100 ms after the first counted step and
\* after the excursion had ended, has set the edge flag without counting.
C32_Witness ==
    /\ sample_count = 3
    /\ last_sample_time_ms = BootTime + 100
    /\ steps_in_window = 1
    /\ last_step_time_ms = BootTime
    /\ above_step_threshold
    /\ buffer_index = 3
    /\ accel_magnitude_buffer[0] = 12000
    /\ accel_magnitude_buffer[1] = 10000
    /\ accel_magnitude_buffer[2] = 12000

\* C31: the step count the freeze detector reads for a window is the count
\* of that window's own samples: while a completed window waits to be
\* processed no step is added to the counter, the counter goes back to 0
\* when the window is processed, and nowhere else does it decrease.
C31_StepsOfOwnWindow ==
    [][/\ (window_ready /\ window_ready')
          => steps_in_window' = steps_in_window
       /\ (window_ready /\ ~window_ready') => steps_in_window' = 0
       /\ steps_in_window' < steps_in_window => (window_ready /\ ~window_ready')
    ]_vars

\* C33: after every processed window at most one of the three streak
\* counters is nonzero, and the two that do not belong to the window's raw
\* label are zero.
C33_OneStreak ==
    [][WindowProcessed
       => /\ raw_detection' = "TREMOR"
             => (dysk_consecutive' = 0 /\ none_consecutive' = 0)
          /\ raw_detection' = "DYSK"
             => (tremor_consecutive' = 0 /\ none_consecutive' = 0)
          /\ raw_detection' = "NONE"
             => (tremor_consecutive' = 0 /\ dysk_consecutive' = 0)
          /\ raw_detection' \in {"TREMOR", "DYSK", "NONE"}
    ]_vars

\* A NONE window has been processed right after a confirmed dyskinesia:
\* the dyskinesia streak of two is back to 0 and the none streak is 1.
C33_Witness ==
    /\ ~window_ready
    /\ raw_detection = "NONE"
    /\ none_consecutive = 1
    /\ dysk_consecutive = 0
    /\ tremor_consecutive = 0
    /\ dysk_intensity > 0

\* C34: smoothing is scoped per label.  A TREMOR window sets the tremor
\* accumulator to 0.3 x raw + 0.7 x previous and leaves the dyskinesia
\* accumulator unchanged, a DYSK window does the converse, and a NONE
\* window leaves both unchanged unless the none streak has reached 3, when
\* both become 0.
C34_SmoothingPerLabel ==
    [][WindowProcessed
       => /\ raw_detection' = "TREMOR"
             => /\ tremor_ema_intensity'
                      = (3 * raw_intensity' + 7 * tremor_ema_intensity) \div 10
                /\ dysk_ema_intensity' = dysk_ema_intensity
          /\ raw_detection' = "DYSK"
             => /\ dysk_ema_intensity'
                      = (3 * raw_intensity' + 7 * dysk_ema_intensity) \div 10
                /\ tremor_ema_intensity' = tremor_ema_intensity
          /\ (raw_detection' = "NONE" /\ none_consecutive' < 3)
             => UNCHANGED <<tremor_ema_intensity, dysk_ema_intensity>>
          /\ (raw_detection' = "NONE" /\ none_consecutive' >= 3)
             => (tremor_ema_intensity' = 0 /\ dysk_ema_intensity' = 0)
    ]_vars

\* A DYSK window has been processed while the tremor accumulator holds the
\* value two TREMOR windows left in it.
C34_Witness ==
    /\ ~window_ready
    /\ raw_detection = "DYSK"
    /\ dysk_consecutive = 1
    /\ dysk_ema_intensity > 0
    /\ tremor_ema_intensity > 0
    /\ tremor_intensity > 0

\* C35: for a window that is analysed, the label is TREMOR exactly when the
\* tremor peak exceeds its threshold and 1.1 times the dyskinesia peak,
\* DYSK exactly when the dyskinesia peak exceeds its threshold and 1.1
\* times the tremor peak, and NONE exactly when neither holds; the two
\* pairs of conditions never hold together.
C35_DominanceExclusive ==
    [][(WindowProcessed /\ win_variance >= 25 /\ fft_initialized')
       => LET noise_floor == IF win_noise < 2500 THEN 2500 ELSE win_noise
              tremor_pair == /\ win_tremor_peak > 3 * noise_floor
                             /\ 10 * win_tremor_peak > 11 * win_dysk_peak
              dysk_pair == /\ win_dysk_peak > 4 * noise_floor
                           /\ 10 * win_dysk_peak > 11 * win_tremor_peak
          IN  /\ ~(tremor_pair /\ dysk_pair)
              /\ raw_detection' = "TREMOR" <=> tremor_pair
              /\ raw_detection' = "DYSK" <=> dysk_pair
              /\ raw_detection' = "NONE" <=> (~tremor_pair /\ ~dysk_pair)
    ]_vars

\* Both peaks exceed their thresholds and the dyskinesia peak dominates:
\* the window has been labelled DYSK.
C35_Witness ==
    /\ ~window_ready
    /\ fft_initialized
    /\ win_tremor_peak = 10000
    /\ win_dysk_peak = 20000
    /\ win_noise = 0
    /\ raw_detection = "DYSK"

\* C36: in a run of consecutive TREMOR windows of any length, every window
\* from the second onward rewrites the published tremor intensity from the
\* smoothed value it has just updated (scaled by 500, at most 1000), and
\* likewise for DYSK.
C36_SustainedRunPublishes ==
    [][WindowProcessed
       => /\ (raw_detection = "TREMOR" /\ raw_detection' = "TREMOR")
             => tremor_intensity' = ScaleIntensity(tremor_ema_intensity')
          /\ (raw_detection = "DYSK" /\ raw_detection' = "DYSK")
             => dysk_intensity' = ScaleIntensity(dysk_ema_intensity')
    ]_vars

\* C37: FREEZE_CONFIRMED is left only for WALKING, by a walking window, or
\* for NOT_WALKING, by a window that is not walking and is evaluated 15000
\* ms or more after the freeze-confirmed timestamp; every other window,
\* with or without freeze indicators, leaves the state FREEZE_CONFIRMED
\* and the FOG status at 1.
C37_ConfirmedExits ==
    [][(WindowProcessed /\ fog_state = "FOG_FREEZE_CONFIRMED")
       => LET walking == currently_walking(steps_in_window, win_variance)
              timed_out == /\ freeze_confirmed_start # 0
                           /\ now - freeze_confirmed_start >= 15000
          IN  /\ walking => (fog_state' = "FOG_WALKING" /\ fog_status' = 0)
              /\ (~walking /\ timed_out)
                 => (fog_state' = "FOG_NOT_WALKING" /\ fog_status' = 0)
              /\ (~walking /\ ~timed_out)
                 => (fog_state' = "FOG_FREEZE_CONFIRMED" /\ fog_status' = 1)
    ]_vars

\* A confirmed freeze has just gone through a window with one step and
\* ample movement (neither walking nor freeze indicators) and is still
\* confirmed.
C37_Witness ==
    /\ ~window_ready
    /\ fog_state = "FOG_FREEZE_CONFIRMED"
    /\ fog_status = 1
    /\ previous_cadence = Cadence(1)
    /\ win_variance = 100000
    /\ freeze_confirmed_start > 0
    /\ now > freeze_confirmed_start

\* C38: in a run from the initial state the freeze-confirmed timestamp is 0
\* whenever the state is not FREEZE_CONFIRMED.
C38_StampOnlyWhileConfirmed ==
    fog_state # "FOG_FREEZE_CONFIRMED" => freeze_confirmed_start = 0

\* A confirmed freeze has ended by the timeout: the state is NOT_WALKING
\* 21000 ms after freeze-start.
C38_Witness ==
    /\ ~window_ready
    /\ fog_state = "FOG_NOT_WALKING"
    /\ walking_start_time = 0
    /\ freeze_start_time > 0
    /\ now - freeze_start_time = 21000
    /\ freeze_confirmed_start = 0

\* C39: the walking-start timestamp is written only by the transition from
\* NOT_WALKING to WALKING and cleared only by the transitions from
\* POTENTIAL_FREEZE and from FREEZE_CONFIRMED to NOT_WALKING; resuming to
\* walk from POTENTIAL_FREEZE or FREEZE_CONFIRMED, and leaving WALKING for
\* NOT_WALKING, leave it unchanged.
C39_WalkingStartWrites ==
    [][WindowProcessed
       => /\ walking_start_time' # walking_start_time
             => \/ /\ fog_state = "FOG_NOT_WALKING"
                   /\ fog_state' = "FOG_WALKING"
                   /\ walking_start_time' = now
                \/ /\ fog_state \in {"FOG_POTENTIAL_FREEZE",
                                     "FOG_FREEZE_CONFIRMED"}
                   /\ fog_state' = "FOG_NOT_WALKING"
                   /\ walking_start_time' = 0
          /\ (fog_state = "FOG_NOT_WALKING" /\ fog_state' = "FOG_WALKING")
             => walking_start_time' = now
          /\ (fog_state \in {"FOG_POTENTIAL_FREEZE", "FOG_FREEZE_CONFIRMED"}
                /\ fog_state' = "FOG_NOT_WALKING")
             => walking_start_time' = 0
          /\ (fog_state \in {"FOG_POTENTIAL_FREEZE", "FOG_FREEZE_CONFIRMED"}
                /\ fog_state' = "FOG_WALKING")
             => walking_start_time' = walking_start_time
          /\ (fog_state = "FOG_WALKING" /\ fog_state' = "FOG_NOT_WALKING")
             => walking_start_time' = walking_start_time
    ]_vars

\* Walking has resumed from a confirmed freeze: the walking-start timestamp
\* is still the one taken before the freeze.
C39_Witness ==
    /\ ~window_ready
    /\ fog_state = "FOG_WALKING"
    /\ walking_start_time = BootTime + 3000
    /\ freeze_start_time = BootTime + 6000
    /\ now = BootTime + 15000
    /\ previous_cadence = Cadence(4)
    /\ consecutive_freeze_windows = 0

=============================================================================
